---- MODULE Spec2Model ----
(***************************************************************************)
(* SUBDUE 5 (gromgull/subdue): graph-based substructure discovery.         *)
(*                                                                         *)
(* Vertices, edges, heap slots and list positions are numbered from 1      *)
(* here (the C arrays are 0-based).  All transformation costs of           *)
(* subdue.h are 1.0, so match costs are natural numbers.  A threshold is   *)
(* a pair <<num, den>> standing for the double num/den.                    *)
(***************************************************************************)
EXTENDS Integers, Naturals, Sequences, FiniteSets, TLC

VARIABLES
    mG1, mG2,        \* matcher: the two graphs handed to the matcher
    mThreshold,      \* matcher: the threshold handed to the matcher
    mMapping,        \* matcher: the caller's mapping buffer
    mSearch,         \* matcher: the locals of InexactGraphMatch while it runs
    mResult,         \* matcher: what the last call returned
    mUsed,           \* matcher: the edges of the second graph of InexactGraphMatch
                     \*          whose used flag is set
    sList,           \* sub list: the list, head first
    sMax,            \* sub list: the max every insertion is called with
    sValueBased,     \* sub list: the valueBased every insertion is called with
    sCalls,          \* sub list: the number of SubListInsert calls so far
    sBefore,         \* sub list: the list as it was before the last call
    sSub,            \* sub list: the substructure of the last call
    dParameters,     \* discovery: the parameters DiscoverSubs is called with
    dLimit,          \* discovery: the local limit
    dParentSubList,  \* discovery: the parents still to be considered
    dChildSubList,   \* discovery: the child list of the current pass
    dDiscoveredSubList, \* discovery: the discovered list
    dExtendedSubList,   \* discovery: what the last ExtendSub returned
    dExtended,       \* discovery: the number of parents extended so far
    dPhase,          \* discovery: where DiscoverSubs stands
    fInput,          \* finder: what FindInstances is called with
    fSearch,         \* finder: the locals of FindInstances while it runs
    fInstanceList,   \* finder: the list FindInstances returned, head first
    cParameters,     \* compression: allowInstanceOverlap and evalMethod of the run
    cLabelList,      \* compression: the label list of the run
    cGraph,          \* compression: the positive graph
    cFlags,          \* compression: its used flags and map fields
    cCall,           \* compression: the last call and what it returned
    iParameters,     \* iterations: the parameters of the run, the graphs and
                     \*             the label list among them
    iteration,       \* iterations: the number of the iteration
    done,            \* iterations: whether the loop is to be left
    iLog,            \* iterations: where the run stands, the calls of
                     \*             DiscoverSubs so far, and the call after
                     \*             which nothing was left
    rHeap,           \* instances: the instances allocated so far
    rLists,          \* instances: the instance lists
    eSub,            \* evaluation: the substructure being evaluated
    eParameters,     \* evaluation: the parameters, the graphs among them
    eFlags,          \* evaluation: the used flags of the definition and
                     \*             the flags of the two graphs
    eLog,            \* evaluation: the substructure before its first
                     \*             evaluation and the values so far
    pHeap,           \* parents: the instances allocated so far, each with
                     \*          its back-pointer to the instance it extends
    pParentSubList,  \* parents: the parent list, a substructure being its
                     \*          positive instance list
    pChildSubList,   \* parents: the child list
    pDiscoveredSubList, \* parents: the discovered list
    pLimit,          \* parents: what is left of limit
    pReads,          \* parents: the instances the last extension read
                     \*          through back-pointers, and how it found them
    pPhase,          \* parents: where DiscoverSubs stands
    hQueue,          \* queue: the match heap's nodes, in array order
    hNode,           \* queue: the node the last extraction returned
    hQueued,         \* queue: the nodes queued when it was extracted
    hCall            \* queue: the last call on the heap

matcherVars == <<mG1, mG2, mThreshold, mMapping, mSearch, mResult, mUsed>>

subListVars == <<sList, sMax, sValueBased, sCalls, sBefore, sSub>>

discoverVars == <<dParameters, dLimit, dParentSubList, dChildSubList,
                  dDiscoveredSubList, dExtendedSubList, dExtended, dPhase>>

finderVars == <<fInput, fSearch, fInstanceList>>

compressVars == <<cParameters, cLabelList, cGraph, cFlags, cCall>>

iterVars == <<iParameters, iteration, done, iLog>>

refVars == <<rHeap, rLists>>

evalVars == <<eSub, eParameters, eFlags, eLog>>

parentVars == <<pHeap, pParentSubList, pChildSubList, pDiscoveredSubList,
                pLimit, pReads, pPhase>>

queueVars == <<hQueue, hNode, hQueued, hCall>>

vars == <<matcherVars, subListVars, discoverVars, finderVars, compressVars, iterVars, refVars, evalVars, parentVars, queueVars>>

----------------------------------------------------------------------------
(* Bounds of the checked instances.                                        *)

MaxMatchVertices == 3
MaxMatchEdges == 2
NumLoopVertices == 7
MaxInserts == 4
MaxSubValue == 3
MaxListMax == 2
NumVertexLabels == 2
NumEdgeLabels == 2
MaxLimit == 3
MaxBeamWidth == 2
MaxNumBestSubs == 2
MaxMinVertices == 2
MaxMaxVertices == 3
MaxIteration == 12
MaxInstances == 3
MaxInstanceEdges == 2
MaxEvaluations == 2
MaxInitialVertices == 5
NumGreedyVertices == 5
MaxGreedyThreshold == 6
MaxQueueNodes == 4
MaxQueueCost == 2
MaxQueueDepth == 2
MaxNewInstances == 2
MaxParentLimit == 2
MaxParentBeam == 2
MaxParentBest == 1
MaxInitialParents == 2
MaxStarInstanceEdges == 3
MaxDisjointLimit == 5
MaxHeapInstances == 3
NumInstanceLists == 2
MaxListLength == 3
MaxIterations == 3

----------------------------------------------------------------------------
(* subdue.h                                                                *)

VERTEX_UNMAPPED == 0
VERTEX_DELETED == -1
MAX_DOUBLE == 1000000
MATCH_SEARCH_THRESHOLD_EXPONENT == 4

Max(S) == CHOOSE x \in S : \A y \in S : y <= x

Min(S) == CHOOSE x \in S : \A y \in S : x <= y

----------------------------------------------------------------------------
(* graphops.c: graphs.  A vertex is [label, edges] where edges lists the   *)
(* indices of its incident edges in the order AddEdgeToVertices appended   *)
(* them; an edge is [vertex1, vertex2, label, directed].                   *)

AllocateGraph == [vertices |-> <<>>, edges |-> <<>>]

AddVertex(g, labelIndex) ==
    [g EXCEPT !.vertices = Append(@, [label |-> labelIndex, edges |-> <<>>])]

\* an AddEdgeToVertices that adds a self edge twice
AddEdgeToVerticesTwice(g, edgeIndex) ==
    LET v1 == g.edges[edgeIndex].vertex1
        v2 == g.edges[edgeIndex].vertex2
    IN  [g EXCEPT !.vertices[v1].edges = Append(@, edgeIndex),
                  !.vertices[v2].edges = Append(@, edgeIndex)]

AddEdgeToVertices(g, edgeIndex) ==
    LET v1 == g.edges[edgeIndex].vertex1
        v2 == g.edges[edgeIndex].vertex2
        g1 == [g EXCEPT !.vertices[v1].edges = Append(@, edgeIndex)]
    IN  IF v1 # v2
        THEN [g1 EXCEPT !.vertices[v2].edges = Append(@, edgeIndex)]
        ELSE g1

AddEdge(g, sourceVertexIndex, targetVertexIndex, directed, labelIndex) ==
    AddEdgeToVertices(
        [g EXCEPT !.edges = Append(@, [vertex1 |-> sourceVertexIndex,
                                       vertex2 |-> targetVertexIndex,
                                       label |-> labelIndex,
                                       directed |-> directed])],
        Len(g.edges) + 1)

NumVertices(g) == Len(g.vertices)

NumEdges(g) == Len(g.edges)

RECURSIVE AddVertices(_, _, _)
AddVertices(g, labels, i) ==
    IF i > Len(labels) THEN g
    ELSE AddVertices(AddVertex(g, labels[i]), labels, i + 1)

RECURSIVE AddEdges(_, _, _)
AddEdges(g, es, i) ==
    IF i > Len(es) THEN g
    ELSE AddEdges(AddEdge(g, es[i].vertex1, es[i].vertex2, es[i].directed,
                          es[i].label), es, i + 1)

\* ReadGraph: the vertices in file order, then the edges in file order
ReadGraph(labels, es) == AddEdges(AddVertices(AllocateGraph, labels, 1), es, 1)

----------------------------------------------------------------------------
(* labels.c                                                                *)

LabelMatchFactor(labelIndex1, labelIndex2) ==
    IF labelIndex1 = labelIndex2 THEN 0 ELSE 1

----------------------------------------------------------------------------
(* graphmatch.c: the match heap, an array in heap order                    *)

HeapParent(i) == i \div 2

HeapLeftChild(i) == 2 * i

HeapRightChild(i) == 2 * i + 1

\* an order that looks at the cost alone
HeapBeforeByCost(a, b) == a.cost < b.cost

\* node a goes above node b: cheaper, or as cheap and deeper
HeapBefore(a, b) ==
    \/ a.cost < b.cost
    \/ (a.cost = b.cost /\ a.depth > b.depth)

RECURSIVE SiftUp(_, _, _)
SiftUp(nodes, i, node) ==
    IF i > 1 /\ HeapBefore(node, nodes[HeapParent(i)])
    THEN SiftUp([nodes EXCEPT ![i] = nodes[HeapParent(i)]], HeapParent(i), node)
    ELSE [nodes EXCEPT ![i] = node]

InsertMatchHeapNode(node, heap) ==
    SiftUp(Append(heap, node), Len(heap) + 1, node)

RECURSIVE HeapifyFrom(_, _)
HeapifyFrom(heap, parent) ==
    LET leftChild == HeapLeftChild(parent)
        rightChild == HeapRightChild(parent)
        best1 == IF leftChild <= Len(heap) /\ HeapBefore(heap[leftChild], heap[parent])
                 THEN leftChild ELSE parent
        best == IF rightChild <= Len(heap) /\ HeapBefore(heap[rightChild], heap[best1])
                THEN rightChild ELSE best1
    IN  IF best = parent THEN heap
        ELSE HeapifyFrom([heap EXCEPT ![parent] = heap[best],
                                      ![best] = heap[parent]], best)

HeapifyMatchHeap(heap) == IF heap = <<>> THEN heap ELSE HeapifyFrom(heap, 1)

\* the heap left behind; the extracted node is heap[1]
ExtractMatchHeapNode(heap) ==
    HeapifyMatchHeap(SubSeq([heap EXCEPT ![1] = heap[Len(heap)]], 1, Len(heap) - 1))

RECURSIVE MergeFrom(_, _, _)
MergeFrom(heap1, heap2, i) ==
    IF i > Len(heap1) THEN heap2
    ELSE MergeFrom(heap1, InsertMatchHeapNode(heap1[i], heap2), i + 1)

MergeMatchHeaps(heap1, heap2) == MergeFrom(heap1, heap2, 1)

RECURSIVE CompressKeep(_, _, _)
CompressKeep(heap, newHeap, n) ==
    IF n = 0 \/ heap = <<>> THEN [heap |-> heap, newHeap |-> newHeap, moved |-> FALSE,
                                  cost |-> 0]
    ELSE LET Last(r) == IF r.moved THEN r
                        ELSE [r EXCEPT !.moved = TRUE, !.cost = heap[1].cost]
         IN  Last(CompressKeep(ExtractMatchHeapNode(heap),
                               InsertMatchHeapNode(heap[1], newHeap), n - 1))

\* one turn of the second loop of CompressMatchHeap
CompressTurn(k) ==
    IF k.cost = k.heap[1].cost
    THEN [k EXCEPT !.heap = ExtractMatchHeapNode(k.heap)]
    ELSE [heap |-> ExtractMatchHeapNode(k.heap),
          newHeap |-> InsertMatchHeapNode(k.heap[1], k.newHeap),
          cost |-> k.heap[1].cost]

\* up to n turns of that loop, halved so that a long heap nests only as
\* deep as the logarithm of its length
RECURSIVE CompressTurns(_, _)
CompressTurns(k, n) ==
    IF n = 0 \/ k.heap = <<>> THEN k
    ELSE IF n = 1 THEN CompressTurn(k)
    ELSE CompressTurns(CompressTurns(k, n \div 2), n - (n \div 2))

\* the second loop left out: what is behind the n best nodes is dropped
CompressRestDroppingAll(heap, newHeap, cost1) == newHeap

CompressRest(heap, newHeap, cost1) ==
    CompressTurns([heap |-> heap, newHeap |-> newHeap, cost |-> cost1],
                  Len(heap)).newHeap

\* n >= 1 and heap may be empty; node1 is then never assigned, and nothing
\* is left to compare it with
CompressMatchHeap(heap, n) ==
    LET Rest(k) == CompressRest(k.heap, k.newHeap, k.cost)
    IN  Rest(CompressKeep(heap, <<>>, n))

----------------------------------------------------------------------------
(* graphmatch.c: the inexact graph matcher                                 *)

\* threshold is <<num, den>>; cost <= num/den
WithinThreshold(cost, threshold) == cost * threshold[2] <= threshold[1]

RECURSIVE Power(_, _)
Power(n, e) == IF e = 0 THEN 1 ELSE n * Power(n, e - 1)

MaximumNodes(n) == Power(n, MATCH_SEARCH_THRESHOLD_EXPONENT)

RECURSIVE OrderFrom(_, _, _)
OrderFrom(g, i, orderedVertices) ==
    IF i > NumVertices(g) THEN orderedVertices
    ELSE LET degree == Len(g.vertices[i].edges)
             ahead == {k \in 1..Len(orderedVertices) :
                          Len(g.vertices[orderedVertices[k]].edges) >= degree}
             j == IF ahead = {} THEN 0 ELSE Max(ahead)
         IN  OrderFrom(g, i + 1,
                       SubSeq(orderedVertices, 1, j) \o <<i>> \o
                       SubSeq(orderedVertices, j + 1, Len(orderedVertices)))

OrderVerticesByDegree(g) == OrderFrom(g, 1, <<>>)

AllocateNewMapping(mapping, v1, v2) == Append(mapping, [v1 |-> v1, v2 |-> v2])

\* a matcher that does not charge for a reversed directed edge
EdgeMatchCostNoReverse(edge1, edge2, v1, v2, otherVertex1, otherVertex2) ==
    (IF edge1.directed # edge2.directed THEN 1 ELSE 0)
    + LabelMatchFactor(edge1.label, edge2.label)

\* cost of matching edge1 at v1 (other end otherVertex1) to edge2 at v2
\* (other end otherVertex2)
EdgeMatchCost(edge1, edge2, v1, v2, otherVertex1, otherVertex2) ==
    (IF edge1.directed # edge2.directed THEN 1 ELSE 0)
    + (IF /\ edge1.directed
          /\ edge2.directed
          /\ edge1.vertex1 # edge1.vertex2
          /\ \/ (edge1.vertex1 = v1 /\ edge2.vertex1 = otherVertex2)
             \/ (edge1.vertex1 = otherVertex1 /\ edge2.vertex1 = v2)
       THEN 1 ELSE 0)
    + LabelMatchFactor(edge1.label, edge2.label)

\* returns the cost and the set of g2's edges left marked used
RECURSIVE DeletedEdgesFrom(_, _, _, _, _, _, _, _)
DeletedEdgesFrom(g1, g2, v1, v2, mapped1, e1, used, totalCost) ==
    IF e1 > Len(g1.vertices[v1].edges) THEN [cost |-> totalCost, used |-> used]
    ELSE
      LET edge1 == g1.edges[g1.vertices[v1].edges[e1]]
          otherVertex1 == IF edge1.vertex1 = v1 THEN edge1.vertex2 ELSE edge1.vertex1
          otherVertex2 == mapped1[otherVertex1]
          cand == {e2 \in 1..Len(g2.vertices[v2].edges) :
                     LET x == g2.vertices[v2].edges[e2]
                         edge2 == g2.edges[x]
                     IN  /\ x \notin used
                         /\ \/ (edge2.vertex1 = otherVertex2 /\ edge2.vertex2 = v2)
                            \/ (edge2.vertex1 = v2 /\ edge2.vertex2 = otherVertex2)}
          cost(e2) == EdgeMatchCost(edge1, g2.edges[g2.vertices[v2].edges[e2]],
                                    v1, v2, otherVertex1, otherVertex2)
          best == CHOOSE e2 \in cand :
                     \A o \in cand : \/ cost(e2) < cost(o)
                                     \/ (cost(e2) = cost(o) /\ e2 <= o)
      IN  IF otherVertex2 = VERTEX_UNMAPPED \/ otherVertex2 = VERTEX_DELETED
          THEN DeletedEdgesFrom(g1, g2, v1, v2, mapped1, e1 + 1, used, totalCost)
          ELSE IF cand # {}
               THEN DeletedEdgesFrom(g1, g2, v1, v2, mapped1, e1 + 1,
                                     used \cup {g2.vertices[v2].edges[best]},
                                     totalCost + cost(best))
               ELSE DeletedEdgesFrom(g1, g2, v1, v2, mapped1, e1 + 1, used,
                                     totalCost + 1)

DeletedEdgesCost(g1, g2, v1, v2, mapped1) ==
    DeletedEdgesFrom(g1, g2, v1, v2, mapped1, 1, {}, 0)

InsertedEdgesCost(g2, v2, mapped2, used) ==
    Cardinality({e2 \in 1..Len(g2.vertices[v2].edges) :
                    LET x == g2.vertices[v2].edges[e2]
                    IN  /\ x \notin used
                        /\ mapped2[g2.edges[x].vertex1] # VERTEX_UNMAPPED
                        /\ mapped2[g2.edges[x].vertex2] # VERTEX_UNMAPPED})

RECURSIVE SumOver(_, _)
SumOver(S, f) ==
    IF S = {} THEN 0
    ELSE LET x == CHOOSE y \in S : TRUE IN f[x] + SumOver(S \ {x}, f)

InsertedVerticesCost(g2, mapped2) ==
    LET costOf ==
          [v \in 1..NumVertices(g2) |->
             IF mapped2[v] # VERTEX_UNMAPPED THEN 0
             ELSE 1 + Cardinality(
                    {e \in 1..Len(g2.vertices[v].edges) :
                        LET edge == g2.edges[g2.vertices[v].edges[e]]
                            v2 == IF v = edge.vertex1 THEN edge.vertex2
                                  ELSE edge.vertex1
                        IN  mapped2[v2] # VERTEX_UNMAPPED \/ v2 = v})]
    IN  SumOver(1..NumVertices(g2), costOf)

\* mapped1 and mapped2 as InexactGraphMatch computes them from a partial mapping
Mapped1(mapping, nv1) ==
    [v \in 1..nv1 |->
        IF \E i \in 1..Len(mapping) : mapping[i].v1 = v
        THEN mapping[CHOOSE i \in 1..Len(mapping) : mapping[i].v1 = v].v2
        ELSE VERTEX_UNMAPPED]

\* a matcher that forgets which vertices of g2 are taken
Mapped2Forgetful(mapping, nv2) == [v \in 1..nv2 |-> VERTEX_UNMAPPED]

Mapped2(mapping, nv2) ==
    [v \in 1..nv2 |->
        IF \E i \in 1..Len(mapping) : mapping[i].v2 = v
        THEN mapping[CHOOSE i \in 1..Len(mapping) : mapping[i].v2 = v].v1
        ELSE VERTEX_UNMAPPED]

Admissible(newCost, threshold, bestCost) ==
    WithinThreshold(newCost, threshold) /\ newCost < bestCost

\* cost of the node that maps v1 to nothing; MAX_DOUBLE when it is not queued
DeleteVertexCost(g1, g2, node, v1, threshold, bestCost) ==
    LET mapped1 == Mapped1(node.mapping, NumVertices(g1))
        mapped2 == Mapped2(node.mapping, NumVertices(g2))
        Queued(c) == IF Admissible(c, threshold, bestCost) THEN c ELSE MAX_DOUBLE
        PlusVertices(c) ==
            Queued(IF Admissible(c, threshold, bestCost)
                      /\ node.depth = NumVertices(g1) - 1
                   THEN c + InsertedVerticesCost(g2, mapped2)
                   ELSE c)
        PlusEdges(c) ==
            PlusVertices(
              IF Admissible(c, threshold, bestCost)
              THEN c + Cardinality(
                     {i \in 1..Len(g1.vertices[v1].edges) :
                         LET edge == g1.edges[g1.vertices[v1].edges[i]]
                             v2 == IF v1 = edge.vertex1 THEN edge.vertex2
                                   ELSE edge.vertex1
                         IN  mapped1[v2] # VERTEX_DELETED \/ v2 = v1})
              ELSE c)
    IN  PlusEdges(node.cost + 1)

\* cost of the node that maps v1 to v2; MAX_DOUBLE when it is not queued
MapVertexCost(g1, g2, node, v1, v2, threshold, bestCost) ==
    LET mapped1 == [Mapped1(node.mapping, NumVertices(g1)) EXCEPT ![v1] = v2]
        mapped2 == [Mapped2(node.mapping, NumVertices(g2)) EXCEPT ![v2] = v1]
        Queued(c) == IF Admissible(c, threshold, bestCost) THEN c ELSE MAX_DOUBLE
        PlusVertices(c) ==
            Queued(IF Admissible(c, threshold, bestCost)
                      /\ node.depth = NumVertices(g1) - 1
                   THEN c + InsertedVerticesCost(g2, mapped2)
                   ELSE c)
        PlusEdges(c, del) ==
            PlusVertices(
              IF Admissible(c, threshold, bestCost)
              THEN c + del.cost + InsertedEdgesCost(g2, v2, mapped2, del.used)
              ELSE c)
    IN  PlusEdges(node.cost
                  + LabelMatchFactor(g1.vertices[v1].label, g2.vertices[v2].label),
                  DeletedEdgesCost(g1, g2, v1, v2, mapped1))

RECURSIVE ExpandFrom(_, _, _, _, _, _, _, _)
ExpandFrom(g1, g2, node, v1, v2, threshold, bestCost, localQueue) ==
    IF v2 > NumVertices(g2) THEN localQueue
    ELSE
      LET free == Mapped2(node.mapping, NumVertices(g2))[v2] = VERTEX_UNMAPPED
          Queue(newCost) ==
             IF free /\ newCost # MAX_DOUBLE
             THEN InsertMatchHeapNode(
                    [depth |-> node.depth + 1, cost |-> newCost,
                     mapping |-> AllocateNewMapping(node.mapping, v1, v2)],
                    localQueue)
             ELSE localQueue
      IN  ExpandFrom(g1, g2, node, v1, v2 + 1, threshold, bestCost,
             Queue(MapVertexCost(g1, g2, node, v1, v2, threshold, bestCost)))

\* the local queue of the successors of node
ExpandNode(g1, g2, node, orderedVertices, threshold, bestCost) ==
    LET v1 == orderedVertices[node.depth + 1]
        Queue(newCost) ==
            IF newCost # MAX_DOUBLE
            THEN InsertMatchHeapNode(
                   [depth |-> node.depth + 1, cost |-> newCost,
                    mapping |-> AllocateNewMapping(node.mapping, v1,
                                                   VERTEX_DELETED)],
                   <<>>)
            ELSE <<>>
    IN  ExpandFrom(g1, g2, node, v1, 1, threshold, bestCost,
                   Queue(DeleteVertexCost(g1, g2, node, v1, threshold, bestCost)))

\* one pass of the while loop of InexactGraphMatch
MatchStep(g1, g2, orderedVertices, threshold, s) ==
    LET node == s.globalQueue[1]
        rest == ExtractMatchHeapNode(s.globalQueue)
        nv1 == NumVertices(g1)
        complete == node.cost < s.bestNode.cost /\ node.depth = nv1
        expand == node.cost < s.bestNode.cost /\ node.depth # nv1
        switch == ~s.quickMatch /\ s.numNodes + 1 > MaximumNodes(nv1)
        Queue(localQueue) ==
            IF s.quickMatch
            THEN IF localQueue # <<>>
                 THEN InsertMatchHeapNode(localQueue[1], rest)
                 ELSE rest
            ELSE MergeMatchHeaps(localQueue, rest)
        Compress(queue) == IF switch THEN CompressMatchHeap(queue, nv1) ELSE queue
    IN  [globalQueue |->
            Compress(IF ~expand THEN rest
                     ELSE Queue(ExpandNode(g1, g2, node, orderedVertices,
                                           threshold, s.bestNode.cost))),
         bestNode |-> IF complete THEN node ELSE s.bestNode,
         numNodes |-> s.numNodes + 1,
         quickMatch |-> s.quickMatch \/ switch,
         done |-> complete /\ ~s.quickMatch]

\* the used flags of g2's edges after the pair DeletedEdgesCost,
\* InsertedEdgesCost for v2: the first marks the edges it matches, the
\* second clears every edge of v2
UsedAfterMapVertex(g1, g2, v1, v2, mapped1, used) ==
    DeletedEdgesFrom(g1, g2, v1, v2, mapped1, 1, used, 0).used
        \ {g2.vertices[v2].edges[e2] : e2 \in 1..Len(g2.vertices[v2].edges)}

\* the loop over v2 of an expansion, from v2 on
RECURSIVE UsedAfterExpand(_, _, _, _, _, _, _, _)
UsedAfterExpand(g1, g2, node, v1, v2, threshold, bestCost, used) ==
    IF v2 > NumVertices(g2) THEN used
    ELSE UsedAfterExpand(g1, g2, node, v1, v2 + 1, threshold, bestCost,
            IF /\ Mapped2(node.mapping, NumVertices(g2))[v2] = VERTEX_UNMAPPED
               /\ Admissible(node.cost
                               + LabelMatchFactor(g1.vertices[v1].label,
                                                  g2.vertices[v2].label),
                             threshold, bestCost)
            THEN UsedAfterMapVertex(g1, g2, v1, v2,
                    [Mapped1(node.mapping, NumVertices(g1)) EXCEPT ![v1] = v2],
                    used)
            ELSE used)

\* the used flags of g2's edges after one pass of the while loop
UsedAfterStep(g1, g2, orderedVertices, threshold, s, used) ==
    LET node == s.globalQueue[1]
    IN  IF node.cost < s.bestNode.cost /\ node.depth # NumVertices(g1)
        THEN UsedAfterExpand(g1, g2, node, orderedVertices[node.depth + 1], 1,
                             threshold, s.bestNode.cost, used)
        ELSE used

\* up to n turns of the while loop, halved so that a long search nests
\* only as deep as the logarithm of its length
RECURSIVE MatchSteps(_, _, _, _, _, _)
MatchSteps(g1, g2, orderedVertices, threshold, s, n) ==
    IF s.globalQueue = <<>> \/ s.done THEN s
    ELSE IF n = 1 THEN MatchStep(g1, g2, orderedVertices, threshold, s)
    ELSE MatchSteps(g1, g2, orderedVertices, threshold,
            MatchSteps(g1, g2, orderedVertices, threshold, s, n \div 2),
            n - (n \div 2))

\* the while loop, run n turns and then twice as many until it ends
RECURSIVE MatchTurns(_, _, _, _, _, _)
MatchTurns(g1, g2, orderedVertices, threshold, s, n) ==
    IF s.globalQueue = <<>> \/ s.done THEN s
    ELSE MatchTurns(g1, g2, orderedVertices, threshold,
            MatchSteps(g1, g2, orderedVertices, threshold, s, n), 2 * n)

MatchLoop(g1, g2, orderedVertices, threshold, s) ==
    MatchTurns(g1, g2, orderedVertices, threshold, s, 1)

\* the locals of InexactGraphMatch when it enters its while loop
MatchStart ==
    [globalQueue |-> <<[depth |-> 0, cost |-> 0, mapping |-> <<>>]>>,
     bestNode |-> [depth |-> 0, cost |-> MAX_DOUBLE, mapping |-> <<>>],
     numNodes |-> 0, quickMatch |-> FALSE, done |-> FALSE]

MatchSearch(g1, g2, threshold) ==
    MatchLoop(g1, g2, OrderVerticesByDegree(g1), threshold, MatchStart)

\* the returned cost, and the caller's mapping buffer after the call: it is
\* written only when bestNode.mapping is not NULL (the empty sequence here)
InexactGraphMatch(g1, g2, threshold, mapping) ==
    LET Return(s) ==
          [cost |-> s.bestNode.cost,
           mapping |-> IF s.bestNode.mapping # <<>> THEN s.bestNode.mapping
                       ELSE mapping,
           numNodes |-> s.numNodes, quickMatch |-> s.quickMatch]
    IN  Return(MatchSearch(g1, g2, threshold))

GraphMatch(g1, g2, threshold, mapping) ==
    IF /\ threshold[1] = 0
       /\ (NumVertices(g1) # NumVertices(g2) \/ NumEdges(g1) # NumEdges(g2))
    THEN [match |-> FALSE, called |-> FALSE, cost |-> MAX_DOUBLE, mapping |-> mapping]
    ELSE LET swap == NumVertices(g1) < NumVertices(g2)
             Return(r) ==
               [match |-> WithinThreshold(r.cost, threshold), called |-> TRUE,
                cost |-> r.cost, mapping |-> r.mapping]
         IN  Return(InexactGraphMatch(IF swap THEN g2 ELSE g1,
                                      IF swap THEN g1 ELSE g2, threshold, mapping))
----------------------------------------------------------------------------
(* subops.c: the substructure list.  A value is a pair <<num, den>> with   *)
(* den > 0 standing for the double num/den.                                *)

ValueLess(a, b) == a[1] * b[2] < b[1] * a[2]

ValueEqual(a, b) == a[1] * b[2] = b[1] * a[2]

\* the duplicate scan: some entry ahead of the first one of smaller value
\* has the value of sub and a definition matching at threshold 0
OnSubList(sub, subList) ==
    \E i \in 1..Len(subList) :
        /\ \A j \in 1..i : ~ValueLess(subList[j].value, sub.value)
        /\ ValueEqual(subList[i].value, sub.value)
        /\ GraphMatch(subList[i].definition, sub.definition, <<0, 1>>, <<>>).match

\* LinkIn with sub linked in ahead of the entries of its own value
LinkInAheadOfTies(sub, subList) ==
    LET notLarger == {i \in 1..Len(subList) : ~ValueLess(sub.value, subList[i].value)}
        k == IF notLarger = {} THEN Len(subList) + 1
             ELSE CHOOSE i \in notLarger : \A j \in notLarger : i <= j
    IN  SubSeq(subList, 1, k - 1) \o <<sub>> \o SubSeq(subList, k, Len(subList))

\* sub linked in before the first entry of smaller value, or at the end
LinkIn(sub, subList) ==
    LET smaller == {i \in 1..Len(subList) : ValueLess(subList[i].value, sub.value)}
        k == IF smaller = {} THEN Len(subList) + 1
             ELSE CHOOSE i \in smaller : \A j \in smaller : i <= j
    IN  SubSeq(subList, 1, k - 1) \o <<sub>> \o SubSeq(subList, k, Len(subList))

\* numDiffVals when the walk stands on entry i
NumDiffVals(subList, i) ==
    Cardinality({j \in 1..i :
                    j = 1 \/ ~ValueEqual(subList[j - 1].value, subList[j].value)})

\* MaxExceeded with the maximum tested one entry late
MaxExceededLate(subList, i, max, valueBased) ==
    /\ max > 0
    /\ \/ (valueBased /\ NumDiffVals(subList, i) > max + 1)
       \/ (~valueBased /\ i > max + 1)

MaxExceeded(subList, i, max, valueBased) ==
    /\ max > 0
    /\ \/ (valueBased /\ NumDiffVals(subList, i) > max)
       \/ (~valueBased /\ i > max)

\* the list cut from the first entry on which a maximum is exceeded
CutAtMax(subList, max, valueBased) ==
    LET over == {i \in 1..Len(subList) : MaxExceeded(subList, i, max, valueBased)}
    IN  IF over = {} THEN subList
        ELSE SubSeq(subList, 1, (CHOOSE i \in over : \A j \in over : i <= j) - 1)

SubListInsert(sub, subList, max, valueBased) ==
    IF subList = <<>> THEN <<sub>>
    ELSE IF OnSubList(sub, subList) THEN subList
    ELSE CutAtMax(LinkIn(sub, subList), max, valueBased)

MemberOfSubList(sub, subList) ==
    \E i \in 1..Len(subList) :
        GraphMatch(sub.definition, subList[i].definition, <<0, 1>>, <<>>).match

----------------------------------------------------------------------------
(* subops.c: instances.  An instance is                                    *)
(*   [vertices, edges, minMatchCost, newVertex, newEdge, mapping,          *)
(*    mappingIndex1, mappingIndex2, used, parentInstance]                  *)
(* with vertices and edges the indices into the host graph, newVertex,     *)
(* newEdge, mappingIndex1 and mappingIndex2 positions in its own arrays,   *)
(* and parentInstance what the new-edge comparison reads through that      *)
(* pointer: the parent's vertex count and mapping.  An instance list is a  *)
(* sequence, head first.                                                   *)

MAX_UNSIGNED_LONG == VERTEX_UNMAPPED

\* parentInstance = NULL
NoParent == [numVertices |-> 0, mapping |-> <<>>]

\* the arrays are allocated unset; the caller fills them
AllocateInstance(vertices, edges, mapping) ==
    [vertices |-> vertices, edges |-> edges, mapping |-> mapping,
     minMatchCost |-> MAX_DOUBLE, newVertex |-> 1, newEdge |-> 1,
     mappingIndex1 |-> MAX_UNSIGNED_LONG, mappingIndex2 |-> MAX_UNSIGNED_LONG,
     used |-> FALSE, parentInstance |-> NoParent]

InstanceMatch(instance1, instance2) ==
    /\ Len(instance1.vertices) = Len(instance2.vertices)
    /\ Len(instance1.edges) = Len(instance2.edges)
    /\ \A i \in 1..Len(instance1.edges) : instance1.edges[i] = instance2.edges[i]
    /\ \A i \in 1..Len(instance1.vertices) :
          instance1.vertices[i] = instance2.vertices[i]

MemberOfInstanceList(instance, instanceList) ==
    \E i \in 1..Len(instanceList) : InstanceMatch(instance, instanceList[i])

\* linked in at the head; an instance already on the list is freed instead
InstanceListInsert(instance, instanceList, unique) ==
    IF (~unique) \/ ~MemberOfInstanceList(instance, instanceList)
    THEN <<instance>> \o instanceList
    ELSE instanceList

\* The used flags and the map fields of a graph are kept beside the graph,
\* as flags = [vertexUsed, edgeUsed, map]; this is how AddVertex and
\* AddEdge leave them.
ClearedFlags(graph) ==
    [vertexUsed |-> [v \in 1..NumVertices(graph) |-> FALSE],
     edgeUsed |-> [e \in 1..NumEdges(graph) |-> FALSE],
     map |-> [v \in 1..NumVertices(graph) |-> VERTEX_UNMAPPED]]

InstanceVertices(instance) ==
    {instance.vertices[i] : i \in 1..Len(instance.vertices)}

InstanceEdges(instance) ==
    {instance.edges[i] : i \in 1..Len(instance.edges)}

MarkInstanceVertices(instance, flags, value) ==
    [flags EXCEPT !.vertexUsed =
        [v \in DOMAIN @ |-> IF v \in InstanceVertices(instance) THEN value ELSE @[v]]]

MarkInstanceEdges(instance, flags, value) ==
    [flags EXCEPT !.edgeUsed =
        [e \in DOMAIN @ |-> IF e \in InstanceEdges(instance) THEN value ELSE @[e]]]

\* the merge walk over the two vertices arrays: j only moves forward
RECURSIVE OverlapFrom(_, _, _, _)
OverlapFrom(vertices1, vertices2, i, j) ==
    IF i > Len(vertices1) \/ j > Len(vertices2) THEN FALSE
    ELSE LET ahead == {k \in j..Len(vertices2) : vertices2[k] >= vertices1[i]}
             j2 == IF ahead = {} THEN Len(vertices2) + 1
                   ELSE CHOOSE k \in ahead : \A m \in ahead : k <= m
         IN  IF j2 <= Len(vertices2) /\ vertices1[i] = vertices2[j2] THEN TRUE
             ELSE OverlapFrom(vertices1, vertices2, i + 1, j2)

\* an overlap test that looks at the first vertex of each instance only
InstanceOverlapAtFirstVertex(instance1, instance2) ==
    instance1.vertices[1] = instance2.vertices[1]

InstanceOverlap(instance1, instance2) ==
    OverlapFrom(instance1.vertices, instance2.vertices, 1, 1)

InstanceListOverlap(instance, instanceList) ==
    \E i \in 1..Len(instanceList) : InstanceOverlap(instance, instanceList[i])

\* the graph of the instance: vertex i is the instance's i-th vertex, edge
\* i its i-th edge, the adjacency arrays filled in edge order
InstanceToGraph(instance, graph) ==
    LET Slot(v) == CHOOSE j \in 1..Len(instance.vertices) : instance.vertices[j] = v
    IN  ReadGraph(
          [i \in 1..Len(instance.vertices) |->
              graph.vertices[instance.vertices[i]].label],
          [i \in 1..Len(instance.edges) |->
              [vertex1 |-> Slot(graph.edges[instance.edges[i]].vertex1),
               vertex2 |-> Slot(graph.edges[instance.edges[i]].vertex2),
               label |-> graph.edges[instance.edges[i]].label,
               directed |-> graph.edges[instance.edges[i]].directed]])

\* the walk of UpdateMapping over the parent's mapping; st holds the
\* mapping of instance2, the slots already set and the two indices
RECURSIVE UpdateFromParent(_, _, _, _, _, _)
UpdateFromParent(instance1, instance2, i, firstIndexValue, secondIndexValue, st) ==
    IF i > instance2.parentInstance.numVertices THEN st
    ELSE
      LET hits == {j \in 1..Len(instance1.vertices) :
                     instance1.parentInstance.mapping[i].v2 = instance1.mapping[j].v2}
          j == Min(hits)
          value == instance2.parentInstance.mapping[i].v2
      IN  UpdateFromParent(instance1, instance2, i + 1, firstIndexValue,
             secondIndexValue,
             IF hits = {} THEN st
             ELSE [mapping |-> [st.mapping EXCEPT ![j] = [v1 |-> j, v2 |-> value]],
                   mapSet |-> st.mapSet \cup {j},
                   mappingIndex1 |-> IF value = firstIndexValue THEN j
                                     ELSE st.mappingIndex1,
                   mappingIndex2 |-> IF value = secondIndexValue THEN j
                                     ELSE st.mappingIndex2,
                   counter |-> st.counter + 1])

\* instance2 with its mapping laid out like that of instance1.  The two
\* index values start at 0 in the C code, the first vertex of the graph.
UpdateMapping(instance1, instance2) ==
    LET n == Len(instance2.vertices)
        firstIndexValue == IF instance2.mappingIndex1 \in 1..n
                           THEN instance2.mapping[instance2.mappingIndex1].v2
                           ELSE 1
        secondIndexValue == IF instance2.mappingIndex2 \in 1..n
                            THEN instance2.mapping[instance2.mappingIndex2].v2
                            ELSE 1
        value == instance2.vertices[instance2.newVertex]
        Open(st) == Min((1..n) \ st.mapSet)
        Last(st) ==
            IF st.counter < n
            THEN [instance2 EXCEPT
                    !.mapping = [st.mapping EXCEPT
                                   ![Open(st)] = [v1 |-> Open(st), v2 |-> value]],
                    !.mappingIndex1 = IF value = firstIndexValue THEN Open(st)
                                      ELSE st.mappingIndex1,
                    !.mappingIndex2 = IF value = secondIndexValue THEN Open(st)
                                      ELSE st.mappingIndex2]
            ELSE [instance2 EXCEPT !.mapping = st.mapping,
                                   !.mappingIndex1 = st.mappingIndex1,
                                   !.mappingIndex2 = st.mappingIndex2]
    IN  Last(UpdateFromParent(instance1, instance2, 1, firstIndexValue,
                              secondIndexValue,
                              [mapping |-> instance2.mapping, mapSet |-> {},
                               mappingIndex1 |-> instance2.mappingIndex1,
                               mappingIndex2 |-> instance2.mappingIndex2,
                               counter |-> 0]))

\* mapping[index].v1; an index left at MAX_UNSIGNED_LONG would point
\* outside the array, which no run of DiscoverSubs reads
MappedVertex(instance, index) ==
    IF index \in 1..Len(instance.mapping) THEN instance.mapping[index].v1
    ELSE MAX_UNSIGNED_LONG

\* the k-th smallest v2 of a mapping
SortedValue(mapping, k) ==
    CHOOSE value \in {mapping[j].v2 : j \in 1..Len(mapping)} :
        /\ Cardinality({j \in 1..Len(mapping) : mapping[j].v2 < value}) < k
        /\ k <= Cardinality({j \in 1..Len(mapping) : mapping[j].v2 <= value})

\* the mapping of the instance rewritten from the mapping GraphMatch returned
RotateMapping(instance, subMapping) ==
    LET sortedMapping == [d \in 1..Len(instance.vertices) |->
                            subMapping[CHOOSE i \in 1..Len(subMapping) :
                                          subMapping[i].v1 = d].v2]
    IN  [i \in 1..Len(instance.vertices) |->
            [v1 |-> instance.mapping[i].v1,
             v2 |-> SortedValue(instance.mapping, sortedMapping[i])]]

\* returns whether the instances match, the caller's matchCost after the
\* call (cost before it) and inst2 as the call leaves it
NewEdgeMatch(g1, inst1, g2, inst2, threshold, cost) ==
    LET edge1 == g1.edges[inst1.newEdge]
        edge2 == g2.edges[inst2.newEdge]
        simple ==
            /\ edge1.label = edge2.label
            /\ edge1.directed = edge2.directed
            /\ \/ (inst1.newVertex = VERTEX_UNMAPPED /\ inst2.newVertex = VERTEX_UNMAPPED)
               \/ /\ inst1.newVertex # VERTEX_UNMAPPED
                  /\ inst2.newVertex # VERTEX_UNMAPPED
                  /\ g1.vertices[inst1.newVertex].label
                        = g2.vertices[inst2.newVertex].label
        Same(updated) ==
            \/ /\ edge1.vertex1 = edge2.vertex1
               /\ edge1.vertex2 = edge2.vertex2
               /\ MappedVertex(inst1, inst1.mappingIndex1)
                     = MappedVertex(updated, updated.mappingIndex1)
               /\ MappedVertex(inst1, inst1.mappingIndex2)
                     = MappedVertex(updated, updated.mappingIndex2)
            \/ /\ ~edge2.directed
               /\ edge1.vertex1 = edge2.vertex2
               /\ edge1.vertex2 = edge2.vertex1
               /\ MappedVertex(inst1, inst1.mappingIndex1)
                     = MappedVertex(updated, updated.mappingIndex2)
               /\ MappedVertex(inst1, inst1.mappingIndex2)
                     = MappedVertex(updated, updated.mappingIndex1)
        Rotated(updated, r) ==
            [match |-> r.match, cost |-> cost,
             instance |-> IF r.match
                          THEN [updated EXCEPT
                                  !.mapping = RotateMapping(updated, r.mapping)]
                          ELSE updated]
        Decide(updated) ==
            IF simple /\ Same(updated)
            THEN [match |-> TRUE, cost |-> 0, instance |-> updated]
            ELSE Rotated(updated, GraphMatch(g1, g2, threshold, <<>>))
    IN  Decide(IF simple /\ inst2.newVertex # VERTEX_UNMAPPED
               THEN UpdateMapping(inst1, inst2) ELSE inst2)

----------------------------------------------------------------------------
(* extend.c: extending instances by one edge                               *)

\* the last of the assignments "if (mapping[i].v2 == target) index = i"
LastAssigned(assignments, target) ==
    LET hits == {k \in 1..Len(assignments) : assignments[k].v2 = target}
    IN  IF hits = {} THEN MAX_UNSIGNED_LONG ELSE assignments[Max(hits)].index

\* a CreateExtendedInstance that appends the new vertex and edge unsorted
CreateExtendedInstanceAppending(instance, v, e, graph) ==
    LET v2 == IF graph.edges[e].vertex1 = v THEN graph.edges[e].vertex2
              ELSE graph.edges[e].vertex1
        n == Len(instance.vertices)
        found == \E i \in 1..n : instance.vertices[i] = v2
    IN  [AllocateInstance(
            IF found THEN instance.vertices ELSE Append(instance.vertices, v2),
            Append(instance.edges, e),
            IF found THEN instance.mapping
            ELSE Append(instance.mapping, [v1 |-> n + 1, v2 |-> v2]))
         EXCEPT !.newVertex = IF found THEN VERTEX_UNMAPPED ELSE n + 1,
                !.newEdge = Len(instance.edges) + 1,
                !.parentInstance = [numVertices |-> n, mapping |-> instance.mapping]]

CreateExtendedInstance(instance, v, e, graph) ==
    LET v2 == IF graph.edges[e].vertex1 = v THEN graph.edges[e].vertex2
              ELSE graph.edges[e].vertex1
        n == Len(instance.vertices)
        found == \E i \in 1..n : instance.vertices[i] = v2
        \* the slot below the new vertex: the walk down from the end stops at
        \* the first vertex that is not above v2
        notAbove == {i \in 1..n : instance.vertices[i] <= v2}
        i0 == IF notAbove = {} THEN 0 ELSE Max(notAbove)
        oldEdges == {i \in 1..Len(instance.edges) : instance.edges[i] <= e}
        j0 == IF oldEdges = {} THEN 0 ELSE Max(oldEdges)
        copied == [k \in 1..n |-> [index |-> k, v2 |-> instance.mapping[k].v2]]
        moved == [k \in 1..(n - i0) |->
                    [index |-> n + 2 - k, v2 |-> instance.mapping[n + 1 - k].v2]]
        assignments == IF found THEN copied
                       ELSE copied \o moved \o <<[index |-> i0 + 1, v2 |-> v2]>>
    IN  [AllocateInstance(
            IF found THEN instance.vertices
            ELSE SubSeq(instance.vertices, 1, i0) \o <<v2>> \o
                 SubSeq(instance.vertices, i0 + 1, n),
            SubSeq(instance.edges, 1, j0) \o <<e>> \o
            SubSeq(instance.edges, j0 + 1, Len(instance.edges)),
            IF found THEN instance.mapping
            ELSE [k \in 1..(n + 1) |->
                    IF k <= i0 THEN instance.mapping[k]
                    ELSE IF k = i0 + 1 THEN [v1 |-> k, v2 |-> v2]
                    ELSE [v1 |-> k, v2 |-> instance.mapping[k - 1].v2]])
         EXCEPT !.newVertex = IF found THEN VERTEX_UNMAPPED ELSE i0 + 1,
                !.newEdge = j0 + 1,
                !.mappingIndex1 = LastAssigned(assignments, graph.edges[e].vertex1),
                !.mappingIndex2 = LastAssigned(assignments, graph.edges[e].vertex2),
                !.parentInstance = [numVertices |-> n, mapping |-> instance.mapping]]

\* The loops of ExtendInstances, innermost first.  The locals of a loop
\* are a record: the index and the list of new instances built so far.
RECURSIVE ExtendByEdges(_, _, _, _)
ExtendByEdges(instance, graph, v, st) ==
    IF st.e > Len(graph.vertices[v].edges) THEN st.newInstanceList
    ELSE ExtendByEdges(instance, graph, v,
            [e |-> st.e + 1,
             newInstanceList |->
                IF \E i \in 1..Len(instance.edges) :
                      instance.edges[i] = graph.vertices[v].edges[st.e]
                THEN st.newInstanceList
                ELSE InstanceListInsert(
                        CreateExtendedInstance(instance, v,
                           graph.vertices[v].edges[st.e], graph),
                        st.newInstanceList, TRUE)])

RECURSIVE ExtendByVertices(_, _, _)
ExtendByVertices(instance, graph, st) ==
    IF st.v > Len(instance.vertices) THEN st.newInstanceList
    ELSE ExtendByVertices(instance, graph,
            [v |-> st.v + 1,
             newInstanceList |->
                ExtendByEdges(instance, graph, instance.vertices[st.v],
                   [e |-> 1, newInstanceList |-> st.newInstanceList])])

RECURSIVE ExtendFromInstance(_, _, _)
ExtendFromInstance(instanceList, graph, st) ==
    IF st.i > Len(instanceList) THEN st.newInstanceList
    ELSE ExtendFromInstance(instanceList, graph,
            [i |-> st.i + 1,
             newInstanceList |->
                ExtendByVertices(instanceList[st.i], graph,
                   [v |-> 1, newInstanceList |-> st.newInstanceList])])

ExtendInstances(instanceList, graph) ==
    ExtendFromInstance(instanceList, graph, [i |-> 1, newInstanceList |-> <<>>])

----------------------------------------------------------------------------
(* extend.c: the substructures one edge larger than a parent.  While       *)
(* ExtendSub runs, the new instances are shared between its list of new    *)
(* instances and the instance lists of the substructures it builds, and    *)
(* the new-edge comparison writes to them; so the list of new instances is *)
(* kept as an array and an instance list of a new substructure as the      *)
(* positions of its instances in that array, head first.  Parameters are a *)
(* record with the fields of the C structure that discovery reads; a       *)
(* negGraph of NULL is numNegEgs = 0.                                      *)

AllocateSub ==
    [definition |-> AllocateGraph, numInstances |-> 0, instances |-> <<>>,
     numNegInstances |-> 0, negInstances |-> <<>>, value |-> <<-1, 1>>]

CreateSubFromInstance(instance, graph) ==
    [AllocateSub EXCEPT !.definition = InstanceToGraph(instance, graph)]

\* the threshold handed on as it is, not scaled by the size
ThresholdLimitUnscaled(threshold, instance) == threshold

\* threshold * (numVertices + numEdges)
ThresholdLimit(threshold, instance) ==
    <<threshold[1] * (Len(instance.vertices) + Len(instance.edges)), threshold[2]>>

\* the instances at the given positions of the array
InstancesAt(instanceList, members) ==
    [i \in 1..Len(members) |-> instanceList[members[i]]]

\* "if (matchCost < instance->minMatchCost) instance->minMatchCost = matchCost"
WithMatchCost(instance, matchCost) ==
    [instance EXCEPT !.minMatchCost = IF matchCost < @ THEN matchCost ELSE @]

\* one turn of the loops of AddPosInstancesToSub and AddNegInstancesToSub
\* on the k-th instance of the list; pos is the position of subInstance
\* for the positive list and 0, below every k, for the negative one
\* (which has no test on its counter); subInstance is the instance the
\* substructure was made from; st holds the array, the members collected
\* and the local matchCost
AddInstanceStep(definition, subInstance, pos, k, graph, parameters, st) ==
    LET instance == st.instanceList[k]
        Matched(r) ==
            IF r.match
            THEN [instanceList |->
                     [st.instanceList EXCEPT
                        ![k] = [WithMatchCost(r.instance, r.cost)
                                  EXCEPT !.used = TRUE]],
                  members |-> <<k>> \o st.members,
                  matchCost |-> r.cost]
            ELSE [instanceList |-> [st.instanceList EXCEPT ![k] = r.instance],
                  members |-> st.members,
                  matchCost |-> r.cost]
        FullyMatched(r) ==
            IF r.match
            THEN [instanceList |->
                     [st.instanceList EXCEPT ![k] = WithMatchCost(instance, r.cost)],
                  members |-> <<k>> \o st.members,
                  matchCost |-> r.cost]
            ELSE [st EXCEPT !.matchCost = r.cost]
    IN  IF ~(parameters.allowInstanceOverlap
             \/ ~InstanceListOverlap(instance,
                                     InstancesAt(st.instanceList, st.members)))
        THEN st
        ELSE IF parameters.threshold[1] = 0
        THEN IF k > pos /\ ~instance.used
             THEN Matched(NewEdgeMatch(definition, subInstance,
                             InstanceToGraph(instance, graph), instance,
                             ThresholdLimit(parameters.threshold, instance),
                             st.matchCost))
             ELSE st
        ELSE FullyMatched(GraphMatch(definition, InstanceToGraph(instance, graph),
                             ThresholdLimit(parameters.threshold, instance), <<>>))

\* the n turns of the loop from the k-th instance on, taken in two halves
\* so that a long list nests only as deep as the logarithm of its length
RECURSIVE AddInstancesFrom(_, _, _, _, _, _, _, _)
AddInstancesFrom(definition, subInstance, pos, k, n, graph, parameters, st) ==
    IF k > Len(st.instanceList) THEN st
    ELSE IF n = 1
    THEN AddInstanceStep(definition, subInstance, pos, k, graph, parameters, st)
    ELSE AddInstancesFrom(definition, subInstance, pos, k + (n \div 2),
            n - (n \div 2), graph, parameters,
            AddInstancesFrom(definition, subInstance, pos, k, n \div 2, graph,
                             parameters, st))

\* index counts from 0 as in the C code; matchCost is what the
\* uninitialised local holds on entry
AddPosInstancesToSub(definition, instanceList, parameters, index, matchCost) ==
    AddInstancesFrom(definition, instanceList[index + 1], index + 1, 1,
       Len(instanceList), parameters.posGraph, parameters,
       [instanceList |-> [instanceList EXCEPT ![index + 1].used = TRUE],
        members |-> <<index + 1>>, matchCost |-> matchCost])

AddNegInstancesToSub(definition, subInstance, instanceList, parameters, matchCost) ==
    AddInstancesFrom(definition, subInstance, 0, 1, Len(instanceList),
       parameters.negGraph, parameters,
       [instanceList |-> instanceList, members |-> <<>>, matchCost |-> matchCost])

\* the body of the loop of ExtendSub for the instance at position index + 1;
\* st holds the two arrays of new instances and the extended
\* substructures built so far, head first
ExtendSubStep(parameters, index, matchCost, st) ==
    LET newInstance == st.newInstanceList[index + 1]
        definition == InstanceToGraph(newInstance, parameters.posGraph)
        WithNeg(pos, neg) ==
            [newInstanceList |-> pos.instanceList,
             negInstanceList |-> neg.instanceList,
             extendedSubs |->
                <<[AllocateSub EXCEPT
                     !.definition = definition,
                     !.instances = pos.members,
                     !.numInstances = Len(pos.members),
                     !.negInstances = neg.members,
                     !.numNegInstances = Len(neg.members)]>> \o st.extendedSubs]
        WithPos(pos) ==
            WithNeg(pos,
               IF parameters.numNegEgs > 0
               THEN AddNegInstancesToSub(definition,
                       pos.instanceList[index + 1], st.negInstanceList,
                       parameters, matchCost)
               ELSE [instanceList |-> st.negInstanceList, members |-> <<>>,
                     matchCost |-> matchCost])
    IN  IF newInstance.minMatchCost # 0
           /\ ~MemberOfSubList(CreateSubFromInstance(newInstance, parameters.posGraph),
                               st.extendedSubs)
        THEN WithPos(AddPosInstancesToSub(definition, st.newInstanceList,
                                          parameters, index, matchCost))
        ELSE st

\* the n turns of the loop of ExtendSub from index on, taken in two halves
RECURSIVE ExtendSubFrom(_, _, _, _, _)
ExtendSubFrom(parameters, index, n, matchCost, st) ==
    IF index >= Len(st.newInstanceList) THEN st
    ELSE IF n = 1 THEN ExtendSubStep(parameters, index, matchCost, st)
    ELSE ExtendSubFrom(parameters, index + (n \div 2), n - (n \div 2), matchCost,
            ExtendSubFrom(parameters, index, n \div 2, matchCost, st))

\* the loop of ExtendSub
ExtendSubLoop(parameters, matchCost, st) ==
    ExtendSubFrom(parameters, 0, Len(st.newInstanceList), matchCost, st)

\* the extended substructures, head first, their instance lists holding
\* the instances as ExtendSub leaves them
ExtendSub(sub, parameters, matchCost) ==
    LET Resolve(st) ==
            [i \in 1..Len(st.extendedSubs) |->
                [st.extendedSubs[i] EXCEPT
                   !.instances = InstancesAt(st.newInstanceList, @),
                   !.negInstances = InstancesAt(st.negInstanceList, @)]]
    IN  Resolve(ExtendSubLoop(parameters, matchCost,
           [newInstanceList |-> ExtendInstances(sub.instances, parameters.posGraph),
            negInstanceList |->
               IF parameters.numNegEgs > 0
               THEN ExtendInstances(sub.negInstances, parameters.negGraph)
               ELSE <<>>,
            extendedSubs |-> <<>>]))

----------------------------------------------------------------------------
(* evaluate.c and compress.c: the value of a substructure, for the         *)
(* evaluation methods that need no logarithm                               *)

DefaultNumBestSubs == 3
DefaultBeamWidth == 4
EVAL_MDL == 1

EVAL_SIZE == 2

EVAL_SETCOVER == 3

GraphSize(graph) == NumVertices(graph) + NumEdges(graph)

\* the vertices, and the edges, that MarkInstanceVertices and
\* MarkInstanceEdges mark for the instances of the list
MarkedVertices(instanceList) ==
    UNION {{instanceList[a].vertices[i] : i \in 1..Len(instanceList[a].vertices)} :
              a \in 1..Len(instanceList)}

MarkedEdges(instanceList) ==
    UNION {{instanceList[a].edges[i] : i \in 1..Len(instanceList[a].edges)} :
              a \in 1..Len(instanceList)}

\* A vertex is processed once, for the first instance holding it, and
\* then unmarked.  Each later instance holding it gives one OVERLAP edge
\* for the pair of instances, unless already there, and one call of
\* AddDuplicateEdges for each unmarked edge in the vertex's edge array;
\* the map field of a vertex of the input graph is never a SUB vertex
\* index, so each call adds one edge.
NumOverlapEdges(graph, instanceList) ==
    LET Holds(a, x) == \E i \in 1..Len(instanceList[a].vertices) :
                          instanceList[a].vertices[i] = x
        First(x) == Min({a \in 1..Len(instanceList) : Holds(a, x)})
        Later(x) == {b \in 1..Len(instanceList) : b > First(x) /\ Holds(b, x)}
        External(x) == Cardinality({e \in 1..Len(graph.vertices[x].edges) :
                          graph.vertices[x].edges[e] \notin MarkedEdges(instanceList)})
    IN  Cardinality(UNION {{<<First(x), b>> : b \in Later(x)} :
                              x \in MarkedVertices(instanceList)})
        + SumOver(MarkedVertices(instanceList),
                  [x \in MarkedVertices(instanceList) |->
                      Cardinality(Later(x)) * External(x)])

SizeOfCompressedGraph(graph, instanceList, parameters) ==
    IF parameters.allowInstanceOverlap
    THEN GraphSize(graph) + Len(instanceList)
         - Cardinality(MarkedVertices(instanceList))
         - Cardinality(MarkedEdges(instanceList))
         + NumOverlapEdges(graph, instanceList)
    ELSE GraphSize(graph)
         + SumOver(1..Len(instanceList),
                   [a \in 1..Len(instanceList) |->
                      1 - (Len(instanceList[a].vertices) + Len(instanceList[a].edges))])

\* egsVertexIndices holds the first vertex of each example
ExamplesCovered(instanceList, graph, numEgs, egsVertexIndices) ==
    Cardinality({i \in 1..numEgs :
        \E a \in 1..Len(instanceList) :
            /\ instanceList[a].vertices[1] >= egsVertexIndices[i]
            /\ instanceList[a].vertices[1] <=
                  (IF i < numEgs THEN egsVertexIndices[i + 1] - 1
                   ELSE NumVertices(graph))})

\* the substructure with its value set
EvaluateSub(sub, parameters) ==
    LET sizeOfSub == GraphSize(sub.definition)
        sizeOfPosGraph == GraphSize(parameters.posGraph)
        sizeOfNegGraph == GraphSize(parameters.negGraph)
        Size(sizeOfCompressedPosGraph, sizeOfCompressedNegGraph) ==
            IF parameters.numNegEgs > 0
            THEN <<sizeOfPosGraph + sizeOfNegGraph,
                   sizeOfSub + sizeOfCompressedPosGraph + sizeOfNegGraph
                   - sizeOfCompressedNegGraph>>
            ELSE <<sizeOfPosGraph, sizeOfSub + sizeOfCompressedPosGraph>>
        SetCover(posEgsCovered, negEgsCovered) ==
            <<posEgsCovered + (parameters.numNegEgs - negEgsCovered),
              parameters.numPosEgs + parameters.numNegEgs>>
    IN  [sub EXCEPT !.value =
           IF parameters.evalMethod = EVAL_SIZE
           THEN Size(SizeOfCompressedGraph(parameters.posGraph, sub.instances,
                                           parameters),
                     IF parameters.numNegEgs > 0
                     THEN SizeOfCompressedGraph(parameters.negGraph,
                                                sub.negInstances, parameters)
                     ELSE 0)
           ELSE SetCover(ExamplesCovered(sub.instances, parameters.posGraph,
                            parameters.numPosEgs, parameters.posEgsVertexIndices),
                         IF parameters.numNegEgs > 0
                         THEN ExamplesCovered(sub.negInstances, parameters.negGraph,
                                 parameters.numNegEgs,
                                 parameters.negEgsVertexIndices)
                         ELSE 0)]

----------------------------------------------------------------------------
(* labels.c: a label is [labelType, labelValue], the value of a string     *)
(* label being the sequence of its characters                              *)

STRING_LABEL == 0

NUMERIC_LABEL == 1

SUB_LABEL_STRING == <<"S", "U", "B">>

Digits == <<"0", "1", "2", "3", "4", "5", "6", "7", "8", "9">>

\* sscanf(string, "%lu%s", &subNumber, rest) for a string without blanks
\* or signs: the number of items converted, and the number read
RECURSIVE ScanNumber(_, _, _)
ScanNumber(string, i, subNumber) ==
    IF i <= Len(string) /\ \E d \in 1..10 : Digits[d] = string[i]
    THEN ScanNumber(string, i + 1,
            subNumber * 10 + (CHOOSE d \in 1..10 : Digits[d] = string[i]) - 1)
    ELSE [subNumber |-> subNumber, end |-> i]

Sscanf(string) ==
    LET Items(r) == [items |-> IF r.end = 1 THEN 0
                               ELSE IF r.end <= Len(string) THEN 2 ELSE 1,
                     subNumber |-> r.subNumber]
    IN  Items(ScanNumber(string, 1, 0))

SubLabelNumber(index, labelList) ==
    LET stringLabel == labelList[index].labelValue
        labelLength == Len(stringLabel)
        prefixLength == Len(SUB_LABEL_STRING)
        compared == labelLength > prefixLength + 1
        match == compared =>
                    \A k \in 1..prefixLength : stringLabel[k] = SUB_LABEL_STRING[k]
        i == IF compared THEN prefixLength ELSE 0
        Number(r) == IF r.items # 1 THEN 0 ELSE r.subNumber
    IN  IF labelList[index].labelType # STRING_LABEL THEN 0
        ELSE IF ~match THEN 0
        ELSE IF ~(i + 1 <= labelLength /\ stringLabel[i + 1] = "_") THEN 0
        ELSE Number(Sscanf(SubSeq(stringLabel, i + 2, labelLength)))

----------------------------------------------------------------------------
(* sgiso.c: the subgraph finder.  AllocateInstance leaves the mapping of a *)
(* one-vertex instance unset and the finder never sets it: garbage is what *)
(* both fields of that slot hold.                                          *)

\* the loop of FindSingleVertexInstances from vertex st.v on
RECURSIVE SingleVertexMatches(_, _, _, _)
SingleVertexMatches(graph, label, garbage, st) ==
    IF st.v > NumVertices(graph) THEN st.instanceList
    ELSE SingleVertexMatches(graph, label, garbage,
            [v |-> st.v + 1,
             instanceList |->
                IF graph.vertices[st.v].label = label
                THEN InstanceListInsert(
                        [AllocateInstance(<<st.v>>, <<>>,
                                          <<[v1 |-> garbage, v2 |-> garbage]>>)
                           EXCEPT !.minMatchCost = 0],
                        st.instanceList, FALSE)
                ELSE st.instanceList])

FindSingleVertexInstances(graph, label, garbage) ==
    SingleVertexMatches(graph, label, garbage, [v |-> 1, instanceList |-> <<>>])

EdgesMatch(g1, edge1, g2, edge2) ==
    LET vertex11Label == g1.vertices[edge1.vertex1].label
        vertex12Label == g1.vertices[edge1.vertex2].label
        vertex21Label == g2.vertices[edge2.vertex1].label
        vertex22Label == g2.vertices[edge2.vertex2].label
    IN  /\ edge1.label = edge2.label
        /\ edge1.directed = edge2.directed
        /\ \/ (vertex11Label = vertex21Label /\ vertex12Label = vertex22Label)
           \/ /\ ~edge1.directed
              /\ vertex11Label = vertex22Label
              /\ vertex12Label = vertex21Label

\* The loops of ExtendInstancesByEdge, innermost first; the edges marked
\* used are the edges of the instance.
RECURSIVE ExtendByMatchingEdges(_, _, _, _, _, _)
ExtendByMatchingEdges(instance, g1, edge1, g2, v2, st) ==
    IF st.e2 > Len(g2.vertices[instance.vertices[v2]].edges)
    THEN st.newInstanceList
    ELSE ExtendByMatchingEdges(instance, g1, edge1, g2, v2,
            [e2 |-> st.e2 + 1,
             newInstanceList |->
                LET e == g2.vertices[instance.vertices[v2]].edges[st.e2]
                IN  IF /\ \A i \in 1..Len(instance.edges) : instance.edges[i] # e
                       /\ EdgesMatch(g1, edge1, g2, g2.edges[e])
                    THEN InstanceListInsert(
                            CreateExtendedInstance(instance, instance.vertices[v2],
                                                   e, g2),
                            st.newInstanceList, TRUE)
                    ELSE st.newInstanceList])

RECURSIVE ExtendByMatchingVertices(_, _, _, _, _)
ExtendByMatchingVertices(instance, g1, edge1, g2, st) ==
    IF st.v2 > Len(instance.vertices) THEN st.newInstanceList
    ELSE ExtendByMatchingVertices(instance, g1, edge1, g2,
            [v2 |-> st.v2 + 1,
             newInstanceList |->
                ExtendByMatchingEdges(instance, g1, edge1, g2, st.v2,
                   [e2 |-> 1, newInstanceList |-> st.newInstanceList])])

\* ExtendInstancesByEdge marks the edges of each instance in g2 for the
\* time it extends the instance
RECURSIVE MarkedWhileExtending(_, _, _)
MarkedWhileExtending(instanceList, i, flags) ==
    IF i > Len(instanceList) THEN flags
    ELSE MarkedWhileExtending(instanceList, i + 1,
            MarkInstanceEdges(instanceList[i],
                MarkInstanceEdges(instanceList[i], flags, TRUE), FALSE))

RECURSIVE ExtendEachByEdge(_, _, _, _, _)
ExtendEachByEdge(instanceList, g1, edge1, g2, st) ==
    IF st.i > Len(instanceList) THEN st.newInstanceList
    ELSE ExtendEachByEdge(instanceList, g1, edge1, g2,
            [i |-> st.i + 1,
             newInstanceList |->
                ExtendByMatchingVertices(instanceList[st.i], g1, edge1, g2,
                   [v2 |-> 1, newInstanceList |-> st.newInstanceList])])

ExtendInstancesByEdge(instanceList, g1, edge1, g2) ==
    ExtendEachByEdge(instanceList, g1, edge1, g2,
                     [i |-> 1, newInstanceList |-> <<>>])

\* the body of the loop of FilterInstances
FilterInstance(subGraph, instance, graph, parameters, newInstanceList) ==
    LET Admit(r) ==
            IF r.match
            THEN InstanceListInsert(WithMatchCost(instance, r.cost),
                                    newInstanceList, FALSE)
            ELSE newInstanceList
    IN  IF parameters.allowInstanceOverlap
           \/ ~InstanceListOverlap(instance, newInstanceList)
        THEN Admit(GraphMatch(subGraph, InstanceToGraph(instance, graph),
                              ThresholdLimit(parameters.threshold, instance), <<>>))
        ELSE newInstanceList

RECURSIVE FilterFrom(_, _, _, _, _)
FilterFrom(subGraph, instanceList, graph, parameters, st) ==
    IF st.i > Len(instanceList) THEN st.newInstanceList
    ELSE FilterFrom(subGraph, instanceList, graph, parameters,
            [i |-> st.i + 1,
             newInstanceList |->
                FilterInstance(subGraph, instanceList[st.i], graph, parameters,
                               st.newInstanceList)])

FilterInstances(subGraph, instanceList, graph, parameters) ==
    FilterFrom(subGraph, instanceList, graph, parameters,
               [i |-> 1, newInstanceList |-> <<>>])

\* FindInstances up to the first test of its while loop
FindInstancesStart(g1, g2, garbage) ==
    LET Locals(instanceList) ==
            [phase |-> "extend", v1 |-> 1,
             reached |-> [v \in 1..NumVertices(g1) |-> v = 1],
             vertexUsed |-> [v \in 1..NumVertices(g1) |-> FALSE],
             edgeUsed |-> [e \in 1..NumEdges(g1) |-> FALSE],
             hostFlags |-> ClearedFlags(g2),
             noMatches |-> instanceList = <<>>,
             instanceList |-> instanceList]
    IN  Locals(FindSingleVertexInstances(g2, g1.vertices[1].label, garbage))

\* the loop over the edges of vertex1; st holds e1 and the locals
RECURSIVE ExtendByEdgesOfVertex(_, _, _)
ExtendByEdgesOfVertex(g1, g2, st) ==
    IF st.e1 > Len(g1.vertices[st.locals.v1].edges) \/ st.locals.noMatches
    THEN st.locals
    ELSE ExtendByEdgesOfVertex(g1, g2,
            [e1 |-> st.e1 + 1,
             locals |->
                LET e == g1.vertices[st.locals.v1].edges[st.e1]
                    Extended(instanceList) ==
                        [st.locals EXCEPT
                           !.reached = [@ EXCEPT ![g1.edges[e].vertex1] = TRUE,
                                                 ![g1.edges[e].vertex2] = TRUE],
                           !.instanceList = instanceList,
                           !.noMatches = instanceList = <<>>,
                           !.edgeUsed = [@ EXCEPT ![e] = TRUE],
                           !.hostFlags =
                               MarkedWhileExtending(st.locals.instanceList, 1, @)]
                IN  IF st.locals.edgeUsed[e] THEN st.locals
                    ELSE Extended(ExtendInstancesByEdge(st.locals.instanceList,
                                     g1, g1.edges[e], g2))])

\* "find next un-used, reached vertex"; 0 is NULL
NextVertex(locals) ==
    LET open == {v \in 1..Len(locals.reached) :
                    ~locals.vertexUsed[v] /\ locals.reached[v]}
    IN  IF open = {} THEN 0 ELSE Min(open)

\* one turn of the while loop of FindInstances
FindInstancesStep(g1, g2, locals) ==
    LET Next(after) == [after EXCEPT !.v1 = NextVertex(after)]
    IN  Next(ExtendByEdgesOfVertex(g1, g2,
                [e1 |-> 1,
                 locals |-> [locals EXCEPT !.vertexUsed[locals.v1] = TRUE]]))

----------------------------------------------------------------------------
(* discover.c: the beam search                                             *)

\* the one-vertex instances of a label, collected from the last vertex
\* down to the one at index first, each linked in at the head
SingleVertexInstances(graph, label, first) ==
    LET hits == {j \in first..NumVertices(graph) : graph.vertices[j].label = label}
        Nth(k) == CHOOSE j \in hits : Cardinality({h \in hits : h < j}) = k - 1
    IN  [k \in 1..Cardinality(hits) |->
            [AllocateInstance(<<Nth(k)>>, <<>>, <<[v1 |-> 1, v2 |-> Nth(k)]>>)
               EXCEPT !.minMatchCost = 0]]

\* the loop over the vertices of the positive graph; its locals are the
\* index and the list of initial substructures
RECURSIVE InitialSubsFrom(_, _)
InitialSubsFrom(parameters, st) ==
    IF st.i > NumVertices(parameters.posGraph) THEN st.initialSubs
    ELSE
      LET vertexLabelIndex == parameters.posGraph.vertices[st.i].label
          instances ==
              SingleVertexInstances(parameters.posGraph, vertexLabelIndex, st.i)
          negInstances ==
              IF parameters.numNegEgs > 0
              THEN SingleVertexInstances(parameters.negGraph, vertexLabelIndex, 1)
              ELSE <<>>
          sub == [AllocateSub EXCEPT
                    !.definition = ReadGraph(<<vertexLabelIndex>>, <<>>),
                    !.instances = instances,
                    !.numInstances = Len(instances),
                    !.negInstances = negInstances,
                    !.numNegInstances = Len(negInstances)]
      IN  InitialSubsFrom(parameters,
             [i |-> st.i + 1,
              initialSubs |->
                 IF (\A j \in 1..(st.i - 1) :
                        parameters.posGraph.vertices[j].label # vertexLabelIndex)
                    /\ Len(instances) > 1
                 THEN SubListInsert(EvaluateSub(sub, parameters), st.initialSubs,
                                    0, FALSE)
                 ELSE st.initialSubs])

\* a GetInitialSubs that keeps the substructures with a single instance
RECURSIVE InitialSubsKeepingAll(_, _)
InitialSubsKeepingAll(parameters, st) ==
    IF st.i > NumVertices(parameters.posGraph) THEN st.initialSubs
    ELSE
      LET vertexLabelIndex == parameters.posGraph.vertices[st.i].label
          instances ==
              SingleVertexInstances(parameters.posGraph, vertexLabelIndex, st.i)
          sub == [AllocateSub EXCEPT
                    !.definition = ReadGraph(<<vertexLabelIndex>>, <<>>),
                    !.instances = instances,
                    !.numInstances = Len(instances)]
      IN  InitialSubsKeepingAll(parameters,
             [i |-> st.i + 1,
              initialSubs |->
                 IF \A j \in 1..(st.i - 1) :
                       parameters.posGraph.vertices[j].label # vertexLabelIndex
                 THEN SubListInsert(EvaluateSub(sub, parameters), st.initialSubs,
                                    0, FALSE)
                 ELSE st.initialSubs])

GetInitialSubsKeepingAll(parameters) ==
    InitialSubsKeepingAll(parameters, [i |-> 1, initialSubs |-> <<>>])

GetInitialSubs(parameters) ==
    InitialSubsFrom(parameters, [i |-> 1, initialSubs |-> <<>>])

SinglePreviousSub(sub, parameters) ==
    /\ NumVertices(sub.definition) = 1
    /\ SubLabelNumber(sub.definition.vertices[1].label, parameters.labelList) > 0

\* a DiscoverSubs that extends a parent whatever is left of limit
ExtendConditionIgnoringLimit(parentSub, parameters, limit) ==
    \/ (parentSub.numInstances > 1 /\ parameters.evalMethod # EVAL_SETCOVER)
    \/ parentSub.numNegInstances > 0

\* the test that lets DiscoverSubs extend a parent
ExtendCondition(parentSub, parameters, limit) ==
    /\ \/ (parentSub.numInstances > 1 /\ parameters.evalMethod # EVAL_SETCOVER)
       \/ parentSub.numNegInstances > 0
    /\ limit > 0

\* a child list that takes extensions of any number of vertices
ChildOfAnySize(extendedSub, parentSub, parameters, childSubList) ==
    LET Keep(evaluated) ==
            IF parameters.prune /\ ValueLess(evaluated.value, parentSub.value)
            THEN childSubList
            ELSE SubListInsert(evaluated, childSubList, parameters.beamWidth,
                               parameters.valueBased)
    IN  Keep(EvaluateSub(extendedSub, parameters))

\* the body of the loop over the extended substructures
Child(extendedSub, parentSub, parameters, childSubList) ==
    LET Keep(evaluated) ==
            IF parameters.prune /\ ValueLess(evaluated.value, parentSub.value)
            THEN childSubList
            ELSE SubListInsert(evaluated, childSubList, parameters.beamWidth,
                               parameters.valueBased)
    IN  IF NumVertices(extendedSub.definition) <= parameters.maxVertices
        THEN Keep(EvaluateSub(extendedSub, parameters))
        ELSE childSubList

\* the loop over the extended substructures; its locals are the index
\* and the child list
RECURSIVE Children(_, _, _, _)
Children(extendedSubList, parentSub, parameters, st) ==
    IF st.i > Len(extendedSubList) THEN st.childSubList
    ELSE Children(extendedSubList, parentSub, parameters,
            [i |-> st.i + 1,
             childSubList |-> Child(extendedSubList[st.i], parentSub, parameters,
                                    st.childSubList)])

\* "add parent substructure to final discovered list", without recursion
Discovered(parentSub, parameters, discoveredSubList) ==
    IF /\ NumVertices(parentSub.definition) >= parameters.minVertices
       /\ ~SinglePreviousSub(parentSub, parameters)
    THEN SubListInsert(parentSub, discoveredSubList, parameters.numBestSubs, FALSE)
    ELSE discoveredSubList

\* an outer loop that tests the limit alone
SearchingWhileLimit(limit, parentSubList) ==
    IF limit > 0 THEN "search" ELSE "drain"

\* the test of the outer loop
Searching(limit, parentSubList) ==
    IF limit > 0 /\ parentSubList # <<>> THEN "search" ELSE "drain"

----------------------------------------------------------------------------
(* The graphs handed to the matcher.  g1 is any graph within the bounds,   *)
(* up to the numbering of its vertices, the order of its edges and the     *)
(* names of its labels; g2 is g1 with its vertices renumbered in any way,  *)
(* or a graph one edit away from g1 with its vertices numbered in reverse. *)
(* Besides these, pairs of loop graphs, matched at threshold 0:            *)
(* NumLoopVertices vertices with a self-loop each and one more vertex      *)
(* hanging from one of them.                                               *)

MatchThresholds == {<<0, 1>>, <<1, 1>>}

EdgeChoices(n) ==
    {x \in [vertex1 : 1..n, vertex2 : 1..n, label : 1..NumEdgeLabels,
            directed : BOOLEAN] : x.directed \/ x.vertex1 <= x.vertex2}

EdgeRank(x) ==
    ((x.vertex1 * (MaxMatchVertices + 1) + x.vertex2) * (NumEdgeLabels + 1)
     + x.label) * 2 + (IF x.directed THEN 1 ELSE 0)

EdgeLists(n) ==
    UNION {{es \in [1..k -> EdgeChoices(n)] :
               /\ \A i \in 1..k, j \in 1..k :
                     i < j => EdgeRank(es[i]) <= EdgeRank(es[j])
               /\ k > 0 => es[1].label = 1}
           : k \in 0..MaxMatchEdges}

LabelLists(n) ==
    {l \in [1..n -> 1..NumVertexLabels] :
        /\ \A i \in 1..n, j \in 1..n : i < j => l[i] <= l[j]
        /\ l[1] = 1}

MatchGraphs ==
    UNION {{ReadGraph(l, es) : l \in LabelLists(n), es \in EdgeLists(n)}
           : n \in 1..MaxMatchVertices}

Labels(g) == [v \in 1..NumVertices(g) |-> g.vertices[v].label]

OtherLabel(l, n) == (l % n) + 1

\* the graphs one edit away from g
Edits(g) ==
    LET l == Labels(g)
        es == g.edges
        n == NumVertices(g)
    IN  {ReadGraph([l EXCEPT ![v] = OtherLabel(@, NumVertexLabels)], es)
              : v \in 1..n}
        \cup {ReadGraph(l, [es EXCEPT ![e].label = OtherLabel(@, NumEdgeLabels)])
              : e \in 1..Len(es)}
        \cup {ReadGraph(l, [es EXCEPT ![e].directed = ~@]) : e \in 1..Len(es)}
        \cup {ReadGraph(l, [es EXCEPT ![e].vertex1 = es[e].vertex2,
                                      ![e].vertex2 = es[e].vertex1])
              : e \in 1..Len(es)}
        \cup {ReadGraph(l, SubSeq(es, 1, e - 1) \o SubSeq(es, e + 1, Len(es)))
              : e \in 1..Len(es)}
        \cup {ReadGraph(l, Append(es, es[e])) : e \in 1..Len(es)}
        \cup {ReadGraph(l, Append(es, [vertex1 |-> 1, vertex2 |-> n, label |-> 1,
                                       directed |-> FALSE]))}
        \cup {ReadGraph(Append(l, 1), es)}
        \cup {ReadGraph(SubSeq(l, 1, n - 1),
                        SelectSeq(es, LAMBDA x : x.vertex1 # n /\ x.vertex2 # n))
              : k \in {n} \ {1}}

\* g with vertex v renumbered p[v]
Renumber(g, p) ==
    LET inv == [w \in 1..NumVertices(g) |-> CHOOSE v \in 1..NumVertices(g) : p[v] = w]
    IN  ReadGraph([w \in 1..NumVertices(g) |-> g.vertices[inv[w]].label],
                  [e \in 1..NumEdges(g) |->
                      [g.edges[e] EXCEPT !.vertex1 = p[@], !.vertex2 = p[@]]])

Reversal(n) == [v \in 1..n |-> n + 1 - v]

Variants(g) ==
    {Renumber(g, p) : p \in Permutations(1..NumVertices(g))}
    \cup {Renumber(h, Reversal(NumVertices(h))) : h \in Edits(g)}

\* k vertices with a self-loop each, and vertex k + 1 hanging from vertex j
LoopGraph(k, j) ==
    ReadGraph([v \in 1..(k + 1) |-> 1],
              [e \in 1..(k + 1) |->
                  [vertex1 |-> IF e <= k THEN e ELSE j,
                   vertex2 |-> IF e <= k THEN e ELSE k + 1,
                   label |-> 1, directed |-> FALSE]])

LoopGraphs == {LoopGraph(NumLoopVertices, j) : j \in 1..NumLoopVertices}

----------------------------------------------------------------------------
(* Matcher specification: one call of GraphMatch on a pair of graphs, the  *)
(* while loop of InexactGraphMatch taken one pass at a time.               *)

Idle == [phase |-> "idle"]

\* the variables of the finder, while nothing uses them
IterUnused ==
    /\ iParameters = <<>>
    /\ iteration = 0
    /\ done = TRUE
    /\ iLog = [pc |-> "unused"]

QueueUnused ==
    /\ hQueue = <<>>
    /\ hNode = <<>>
    /\ hQueued = <<>>
    /\ hCall = "unused"

ParentUnused ==
    /\ pHeap = <<>>
    /\ pParentSubList = <<>>
    /\ pChildSubList = <<>>
    /\ pDiscoveredSubList = <<>>
    /\ pLimit = 0
    /\ pReads = {}
    /\ pPhase = "unused"

RefUnused ==
    /\ rHeap = <<"unused">>
    /\ rLists = <<>>

EvalUnused ==
    /\ eSub = <<>>
    /\ eParameters = <<>>
    /\ eFlags = <<>>
    /\ eLog = <<>>

CompressUnused ==
    /\ cParameters = <<>>
    /\ cLabelList = <<>>
    /\ cGraph = <<>>
    /\ cFlags = <<>>
    /\ cCall = [name |-> "unused"]

FinderUnused ==
    /\ fInput = <<>>
    /\ fSearch = [phase |-> "unused"]
    /\ fInstanceList = <<>>

\* the variables of the discovery, while nothing uses them
DiscoverUnused ==
    /\ dParameters = <<>>
    /\ dLimit = 0
    /\ dParentSubList = <<>>
    /\ dChildSubList = <<>>
    /\ dDiscoveredSubList = <<>>
    /\ dExtendedSubList = <<>>
    /\ dExtended = 0
    /\ dPhase = "unused"

SubListUnused ==
    /\ sList = <<>>
    /\ sMax = 0
    /\ sValueBased = FALSE
    /\ sCalls = 0
    /\ sBefore = <<>>
    /\ sSub = <<>>

MatcherInit ==
    /\ SubListUnused
    /\ DiscoverUnused
    /\ FinderUnused
    /\ CompressUnused
    /\ IterUnused
    /\ RefUnused
    /\ EvalUnused
    /\ ParentUnused
    /\ QueueUnused
    /\ \/ /\ mG1 \in MatchGraphs
          /\ mG2 \in Variants(mG1)
          /\ mThreshold \in MatchThresholds
       \/ /\ mG1 = LoopGraph(NumLoopVertices, 1)
          /\ mG2 \in LoopGraphs
          /\ mThreshold = <<0, 1>>
    /\ mMapping = <<>>
    /\ mSearch = Idle
    /\ mResult = [called |-> FALSE]
    /\ mUsed = {}

\* the larger graph goes first into InexactGraphMatch
LargerGraph == IF NumVertices(mG1) < NumVertices(mG2) THEN mG2 ELSE mG1

SmallerGraph == IF NumVertices(mG1) < NumVertices(mG2) THEN mG1 ELSE mG2

\* GraphMatch up to the first pass of the loop of InexactGraphMatch
CallGraphMatch ==
    /\ mResult = [called |-> FALSE]
    /\ mSearch = Idle
    /\ IF /\ mThreshold[1] = 0
          /\ \/ NumVertices(mG1) # NumVertices(mG2)
             \/ NumEdges(mG1) # NumEdges(mG2)
       THEN /\ mResult' = [called |-> TRUE, match |-> FALSE,
                           cost |-> MAX_DOUBLE, searched |-> FALSE,
                           numNodes |-> 0, quickMatch |-> FALSE]
            /\ mSearch' = mSearch
       ELSE /\ mSearch' = [phase |-> "search"] @@ MatchStart
            /\ mResult' = mResult
    /\ UNCHANGED <<mG1, mG2, mThreshold, mMapping, mUsed, subListVars, discoverVars, finderVars, compressVars, iterVars, refVars, evalVars, parentVars, queueVars>>

\* one pass of the while loop
MatchIterate ==
    /\ mSearch.phase = "search"
    /\ mSearch.globalQueue # <<>>
    /\ ~mSearch.done
    /\ mSearch' = [phase |-> "search"]
                  @@ MatchStep(LargerGraph, SmallerGraph,
                               OrderVerticesByDegree(LargerGraph), mThreshold,
                               mSearch)
    /\ mUsed' = UsedAfterStep(LargerGraph, SmallerGraph,
                              OrderVerticesByDegree(LargerGraph), mThreshold,
                              mSearch, mUsed)
    /\ UNCHANGED <<mG1, mG2, mThreshold, mMapping, mResult, subListVars, discoverVars, finderVars, compressVars, iterVars, refVars, evalVars, parentVars, queueVars>>

\* the loop has ended: InexactGraphMatch copies the best mapping out and
\* returns, and GraphMatch compares the cost with the threshold
MatchReturn ==
    /\ mSearch.phase = "search"
    /\ mSearch.globalQueue = <<>> \/ mSearch.done
    /\ mMapping' = IF mSearch.bestNode.mapping # <<>>
                   THEN mSearch.bestNode.mapping ELSE mMapping
    /\ mResult' = [called |-> TRUE,
                   match |-> WithinThreshold(mSearch.bestNode.cost, mThreshold),
                   cost |-> mSearch.bestNode.cost, searched |-> TRUE,
                   numNodes |-> mSearch.numNodes,
                   quickMatch |-> mSearch.quickMatch]
    /\ mSearch' = Idle
    /\ UNCHANGED <<mG1, mG2, mThreshold, mUsed, subListVars, discoverVars, finderVars, compressVars, iterVars, refVars, evalVars, parentVars, queueVars>>

MatcherNext == CallGraphMatch \/ MatchIterate \/ MatchReturn

MatcherSpec == MatcherInit /\ [][MatcherNext]_vars

----------------------------------------------------------------------------
(* Properties of the matcher.                                              *)

Min2(a, b) == IF a < b THEN a ELSE b

Max2(a, b) == IF a < b THEN b ELSE a

\* an edge as seen through the vertex renumbering p
EdgeImage(x, p) ==
    IF x.directed
    THEN <<p[x.vertex1], p[x.vertex2], x.label, TRUE>>
    ELSE <<Min2(p[x.vertex1], p[x.vertex2]), Max2(p[x.vertex1], p[x.vertex2]),
           x.label, FALSE>>

Identity(n) == [v \in 1..n |-> v]

\* p carries g1 onto g2: vertex labels, and for every pair of vertices the
\* number of edges of each label, directedness and direction
CarriesOnto(g1, g2, p) ==
    /\ \A v \in 1..NumVertices(g1) : g1.vertices[v].label = g2.vertices[p[v]].label
    /\ NumEdges(g1) = NumEdges(g2)
    /\ \A e \in 1..NumEdges(g1) :
          Cardinality({d \in 1..NumEdges(g1) :
                          EdgeImage(g1.edges[d], p) = EdgeImage(g1.edges[e], p)})
          = Cardinality({d \in 1..NumEdges(g2) :
                          EdgeImage(g2.edges[d], Identity(NumVertices(g2)))
                          = EdgeImage(g1.edges[e], p)})

Isomorphic(g1, g2) ==
    /\ NumVertices(g1) = NumVertices(g2)
    /\ \E p \in Permutations(1..NumVertices(g1)) : CarriesOnto(g1, g2, p)

\* C9 as claimed: at threshold 0, GraphMatch answers TRUE exactly when some
\* bijection between the vertices of the two graphs preserves vertex
\* labels, edge labels, directedness, direction and the number of parallel
\* edges.
C9_ExactMatchIsIsomorphism ==
    (mResult.called /\ mThreshold = <<0, 1>>)
        => (mResult.match <=> Isomorphic(mG1, mG2))

\* C9 amended: at threshold 0, a TRUE answer of GraphMatch implies such a
\* bijection, and such a bijection implies a TRUE answer when the search
\* ended before it switched to greedy search, that is, after taking at most
\* MaximumNodes + 1 nodes from its queue.
C9_ExactMatchUnlessGreedy ==
    (mResult.called /\ mThreshold = <<0, 1>>)
        => /\ mResult.match => Isomorphic(mG1, mG2)
           /\ (/\ Isomorphic(mG1, mG2)
               /\ mResult.numNodes <= MaximumNodes(NumVertices(LargerGraph)) + 1)
                 => mResult.match

\* C9 witness: a TRUE answer at threshold 0 on two differently numbered
\* three-vertex graphs with two parallel edges, one of them directed.
C9_Witness ==
    /\ mResult.called
    /\ mThreshold = <<0, 1>>
    /\ mResult.match
    /\ mG1 # mG2
    /\ NumVertices(mG1) = 3
    /\ NumEdges(mG1) = 2
    /\ mG1.edges[1].vertex1 # mG1.edges[1].vertex2
    /\ {mG1.edges[1].vertex1, mG1.edges[1].vertex2}
          = {mG1.edges[2].vertex1, mG1.edges[2].vertex2}
    /\ mG1.edges[1].directed # mG1.edges[2].directed

\* C10: when the matcher finds a mapping within the threshold, its cost is
\* not below zero and the mapping written to the caller's buffer has one
\* entry for each vertex of the larger graph, each entry DELETED or a vertex
\* of the smaller graph, and no vertex of the smaller graph appears twice.
C10_CostAndMappingWellFormed ==
    (mResult.called /\ mResult.searched /\ mResult.cost # MAX_DOUBLE)
        => /\ mResult.cost >= 0
           /\ Len(mMapping) = NumVertices(LargerGraph)
           /\ \A v \in 1..NumVertices(LargerGraph) :
                 Cardinality({i \in 1..Len(mMapping) : mMapping[i].v1 = v}) = 1
           /\ \A i \in 1..Len(mMapping) :
                 \/ mMapping[i].v2 = VERTEX_DELETED
                 \/ mMapping[i].v2 \in 1..NumVertices(SmallerGraph)
           /\ \A i \in 1..Len(mMapping), j \in 1..Len(mMapping) :
                 (i # j /\ mMapping[i].v2 # VERTEX_DELETED)
                     => mMapping[i].v2 # mMapping[j].v2

\* C10 witness: a mapping found at a positive threshold between graphs of
\* different sizes, with one vertex deleted and another mapped.
C10_Witness ==
    /\ mResult.called
    /\ mResult.searched
    /\ mResult.cost # MAX_DOUBLE
    /\ mResult.cost > 0
    /\ NumVertices(mG1) # NumVertices(mG2)
    /\ \E i \in 1..Len(mMapping) : mMapping[i].v2 = VERTEX_DELETED
    /\ \E i \in 1..Len(mMapping) : mMapping[i].v2 \in 1..NumVertices(SmallerGraph)
----------------------------------------------------------------------------
(* Substructure list specification: a list that starts empty and takes    *)
(* SubListInsert calls, all with the same max and valueBased.  Each        *)
(* substructure carries the number of the call that brought it.            *)

MatcherUnused ==
    /\ mG1 = <<>>
    /\ mG2 = <<>>
    /\ mThreshold = <<0, 1>>
    /\ mMapping = <<>>
    /\ mSearch = Idle
    /\ mResult = [called |-> FALSE, unused |-> TRUE]
    /\ mUsed = {}

\* one vertex of either label; an edge drawn both ways round; the same edge
\* directed; a two-edge path
SubDefinitions ==
    {ReadGraph(<<1>>, <<>>),
     ReadGraph(<<2>>, <<>>),
     ReadGraph(<<1, 2>>, <<[vertex1 |-> 1, vertex2 |-> 2, label |-> 1,
                            directed |-> FALSE]>>),
     ReadGraph(<<2, 1>>, <<[vertex1 |-> 1, vertex2 |-> 2, label |-> 1,
                            directed |-> FALSE]>>),
     ReadGraph(<<1, 2>>, <<[vertex1 |-> 1, vertex2 |-> 2, label |-> 1,
                            directed |-> TRUE]>>)}

SubListInit ==
    /\ MatcherUnused
    /\ DiscoverUnused
    /\ FinderUnused
    /\ CompressUnused
    /\ IterUnused
    /\ RefUnused
    /\ EvalUnused
    /\ ParentUnused
    /\ QueueUnused
    /\ sList = <<>>
    /\ sMax \in 0..MaxListMax
    /\ sValueBased \in BOOLEAN
    /\ sCalls = 0
    /\ sBefore = <<>>
    /\ sSub = <<>>

CallSubListInsert ==
    /\ sCalls < MaxInserts
    /\ \E definition \in SubDefinitions, v \in 1..MaxSubValue :
          LET sub == [definition |-> definition, value |-> <<v, 1>>,
                      call |-> sCalls + 1]
          IN  /\ sSub' = sub
              /\ sList' = SubListInsert(sub, sList, sMax, sValueBased)
    /\ sBefore' = sList
    /\ sCalls' = sCalls + 1
    /\ UNCHANGED <<sMax, sValueBased, matcherVars, discoverVars, finderVars, compressVars, iterVars, refVars, evalVars, parentVars, queueVars>>

SubListNext == CallSubListInsert

SubListSpec == SubListInit /\ [][SubListNext]_vars

\* C2: the list is ordered by non-increasing value, and of two entries of
\* equal value the one inserted earlier comes first.
C2_SortedTiesInInsertionOrder ==
    \A i \in 1..Len(sList), j \in 1..Len(sList) :
        i < j => /\ ~ValueLess(sList[i].value, sList[j].value)
                 /\ ValueEqual(sList[i].value, sList[j].value)
                       => sList[i].call < sList[j].call

\* C2 witness: an insertion put a substructure between an earlier entry of
\* its own value and an entry of smaller value.
C2_Witness ==
    /\ Len(sList) >= 3
    /\ \E i \in 2..(Len(sList) - 1) :
          /\ sList[i] = sSub
          /\ ValueEqual(sList[i - 1].value, sSub.value)
          /\ ValueLess(sList[i + 1].value, sSub.value)

DistinctValues(subList) ==
    Cardinality({subList[i].value : i \in 1..Len(subList)})

RespectsMax(subList) ==
    /\ (sMax > 0 /\ ~sValueBased) => Len(subList) <= sMax
    /\ (sMax > 0 /\ sValueBased) => DistinctValues(subList) <= sMax

\* C3: an insertion into a list that respected the bound leaves a list with
\* at most max entries (valueBased false) or at most max distinct values
\* (valueBased true) when max > 0, and removes no entry when max = 0.
C3_MaxBoundsList ==
    (sCalls > 0 /\ RespectsMax(sBefore))
        => /\ RespectsMax(sList)
           /\ sMax = 0 => \A i \in 1..Len(sBefore) :
                             \E j \in 1..Len(sList) : sList[j] = sBefore[i]

\* C3 witness: with valueBased true an insertion into a list already at max
\* distinct values dropped the entries of the lowest value.
C3_Witness ==
    /\ sCalls > 0
    /\ sValueBased
    /\ sMax = 2
    /\ DistinctValues(sBefore) = 2
    /\ DistinctValues(sList) = 2
    /\ Len(sList) >= 3
    /\ \E j \in 1..Len(sList) : sList[j] = sSub
    /\ \E i \in 1..Len(sBefore) : \A j \in 1..Len(sList) : sList[j] # sBefore[i]

\* C4: no two entries of the list have definitions that match each other at
\* threshold 0.
C4_NoDuplicateDefinitions ==
    \A i \in 1..Len(sList), j \in 1..Len(sList) :
        i # j => ~GraphMatch(sList[i].definition, sList[j].definition,
                             <<0, 1>>, <<>>).match

----------------------------------------------------------------------------
(* DiscoverSubs, one turn of a loop at a time.  matchCost is what the      *)
(* uninitialised local of AddPosInstancesToSub and AddNegInstancesToSub    *)
(* holds on entry: nothing but a comparison with minMatchCost and a test   *)
(* of minMatchCost against 0.0 ever reads it, so it is either 0 or not.    *)

\* the inputs of a run: a host (the label list, the positive graph and its
\* examples, the negative graph and its examples) and the remaining
\* parameters as main.c lets them through: minVertices and beamWidth at
\* least 1, maxVertices no less than minVertices
DiscoverLabel(labelValue) == [labelType |-> STRING_LABEL, labelValue |-> labelValue]

DiscoverEdge(vertex1, vertex2, label, directed) ==
    [vertex1 |-> vertex1, vertex2 |-> vertex2, label |-> label,
     directed |-> directed]

NoExamples ==
    [graph |-> ReadGraph(<<>>, <<>>), numEgs |-> 0, egsVertexIndices |-> <<>>]

\* three vertices on a directed cycle, one edge of it doubled backwards
CycleHost ==
    [labelList |-> <<DiscoverLabel(<<"v">>), DiscoverLabel(<<"e">>)>>,
     pos |-> [graph |-> ReadGraph(<<1, 1, 1>>,
                           <<DiscoverEdge(1, 2, 2, TRUE), DiscoverEdge(2, 3, 2, TRUE),
                             DiscoverEdge(3, 1, 2, TRUE), DiscoverEdge(2, 1, 2, TRUE)>>),
              numEgs |-> 1, egsVertexIndices |-> <<1>>],
     neg |-> NoExamples]

\* two positive examples a - b and a negative example a -> b
ExamplesHost ==
    [labelList |-> <<DiscoverLabel(<<"a">>), DiscoverLabel(<<"b">>),
                     DiscoverLabel(<<"e">>)>>,
     pos |-> [graph |-> ReadGraph(<<1, 2, 1, 2>>,
                           <<DiscoverEdge(1, 2, 3, FALSE),
                             DiscoverEdge(3, 4, 3, FALSE)>>),
              numEgs |-> 2, egsVertexIndices |-> <<1, 3>>],
     neg |-> [graph |-> ReadGraph(<<1, 2>>, <<DiscoverEdge(1, 2, 3, TRUE)>>),
              numEgs |-> 1, egsVertexIndices |-> <<1>>]]

\* a path SUB_1 - a - SUB_1 - a, as an earlier iteration leaves it
PathHost ==
    [labelList |-> <<DiscoverLabel(<<"S", "U", "B", "_", "1">>),
                     DiscoverLabel(<<"a">>), DiscoverLabel(<<"e">>)>>,
     pos |-> [graph |-> ReadGraph(<<1, 2, 1, 2>>,
                           <<DiscoverEdge(1, 2, 3, FALSE),
                             DiscoverEdge(2, 3, 3, FALSE),
                             DiscoverEdge(3, 4, 3, FALSE)>>),
              numEgs |-> 1, egsVertexIndices |-> <<1>>],
     neg |-> NoExamples]

\* two vertices joined twice, one of them with a self-loop
ParallelHost ==
    [labelList |-> <<DiscoverLabel(<<"v">>), DiscoverLabel(<<"e">>)>>,
     pos |-> [graph |-> ReadGraph(<<1, 1>>,
                           <<DiscoverEdge(1, 2, 2, FALSE),
                             DiscoverEdge(1, 2, 2, FALSE),
                             DiscoverEdge(1, 1, 2, TRUE)>>),
              numEgs |-> 1, egsVertexIndices |-> <<1>>],
     neg |-> NoExamples]

DiscoverHosts == {CycleHost, ExamplesHost, PathHost, ParallelHost}

DiscoverThresholds == {<<0, 1>>, <<1, 2>>}

DiscoverInputs ==
    {[threshold |-> t, allowInstanceOverlap |-> o, evalMethod |-> m,
      limit |-> l, beamWidth |-> b, valueBased |-> vb, prune |-> pr,
      numBestSubs |-> nb, minVertices |-> mn, maxVertices |-> mx,
      labelList |-> h.labelList,
      posGraph |-> h.pos.graph, numPosEgs |-> h.pos.numEgs,
      posEgsVertexIndices |-> h.pos.egsVertexIndices,
      negGraph |-> h.neg.graph, numNegEgs |-> h.neg.numEgs,
      negEgsVertexIndices |-> h.neg.egsVertexIndices] :
        h \in DiscoverHosts, t \in DiscoverThresholds, o \in BOOLEAN,
        m \in {EVAL_SIZE, EVAL_SETCOVER}, l \in 0..MaxLimit,
        b \in 1..MaxBeamWidth, vb \in BOOLEAN, pr \in BOOLEAN,
        nb \in 1..MaxNumBestSubs, mn \in 1..MaxMinVertices,
        mx \in MaxMinVertices..MaxMaxVertices}


\* DiscoverSubs up to the first test of the outer loop
DiscoverStart(parameters) ==
    /\ dParameters = parameters
    /\ dLimit = parameters.limit
    /\ dParentSubList = GetInitialSubs(parameters)
    /\ dChildSubList = <<>>
    /\ dDiscoveredSubList = <<>>
    /\ dExtendedSubList = <<>>
    /\ dExtended = 0
    /\ dPhase = Searching(dLimit, dParentSubList)

\* one turn of the loop over the parent list
ConsiderParent ==
    /\ dPhase = "search"
    /\ dParentSubList # <<>>
    /\ \E matchCost \in {0, MAX_DOUBLE} :
          IF ExtendCondition(Head(dParentSubList), dParameters, dLimit)
          THEN /\ dLimit' = dLimit - 1
               /\ dExtended' = dExtended + 1
               /\ dExtendedSubList' =
                     ExtendSub(Head(dParentSubList), dParameters, matchCost)
               /\ dChildSubList' =
                     Children(dExtendedSubList', Head(dParentSubList), dParameters,
                              [i |-> 1, childSubList |-> dChildSubList])
          ELSE UNCHANGED <<dLimit, dExtended, dExtendedSubList, dChildSubList>>
    /\ dDiscoveredSubList' =
          Discovered(Head(dParentSubList), dParameters, dDiscoveredSubList)
    /\ dParentSubList' = Tail(dParentSubList)
    /\ UNCHANGED <<dParameters, dPhase, matcherVars, subListVars, finderVars, compressVars, iterVars, refVars, evalVars, parentVars, queueVars>>

\* the end of a pass: the child list becomes the parent list
NextPass ==
    /\ dPhase = "search"
    /\ dParentSubList = <<>>
    /\ dParentSubList' = dChildSubList
    /\ dChildSubList' = <<>>
    /\ dPhase' = Searching(dLimit, dChildSubList)
    /\ UNCHANGED <<dParameters, dLimit, dDiscoveredSubList, dExtendedSubList,
                   dExtended, matcherVars, subListVars, finderVars, compressVars, iterVars, refVars, evalVars, parentVars, queueVars>>

\* one turn of the loop over what is left of the parent list
DrainParent ==
    /\ dPhase = "drain"
    /\ dParentSubList # <<>>
    /\ dDiscoveredSubList' =
          Discovered(Head(dParentSubList), dParameters, dDiscoveredSubList)
    /\ dParentSubList' = Tail(dParentSubList)
    /\ UNCHANGED <<dParameters, dLimit, dChildSubList, dExtendedSubList,
                   dExtended, dPhase, matcherVars, subListVars, finderVars, compressVars, iterVars, refVars, evalVars, parentVars, queueVars>>

ReturnDiscovered ==
    /\ dPhase = "drain"
    /\ dParentSubList = <<>>
    /\ dPhase' = "returned"
    /\ UNCHANGED <<dParameters, dLimit, dParentSubList, dChildSubList,
                   dDiscoveredSubList, dExtendedSubList, dExtended,
                   matcherVars, subListVars, finderVars, compressVars, iterVars, refVars, evalVars, parentVars, queueVars>>

DiscoverNext == ConsiderParent \/ NextPass \/ DrainParent \/ ReturnDiscovered

DiscoverInit ==
    /\ MatcherUnused
    /\ SubListUnused
    /\ FinderUnused
    /\ CompressUnused
    /\ IterUnused
    /\ RefUnused
    /\ EvalUnused
    /\ ParentUnused
    /\ QueueUnused
    /\ \E parameters \in DiscoverInputs : DiscoverStart(parameters)

DiscoverSpec == DiscoverInit /\ [][DiscoverNext]_vars

\* C1: every instance on the positive or negative list of a substructure
\* that ExtendSub produced matches the substructure's definition within
\* threshold * (the instance's vertices + edges), the instances that
\* NewEdgeMatch accepted at threshold 0 included.
C1_ExtendedInstancesMatchDefinition ==
    \A i \in 1..Len(dExtendedSubList) :
        LET sub == dExtendedSubList[i]
            Matches(instance, graph) ==
                GraphMatch(sub.definition, InstanceToGraph(instance, graph),
                           ThresholdLimit(dParameters.threshold, instance),
                           <<>>).match
        IN  /\ \A k \in 1..Len(sub.instances) :
                  Matches(sub.instances[k], dParameters.posGraph)
            /\ \A k \in 1..Len(sub.negInstances) :
                  Matches(sub.negInstances[k], dParameters.negGraph)

\* the witness of C1's failure is the run itself; a run that extends a
\* parent at threshold 0 to substructures with several instances
C1_Run ==
    /\ dParameters.threshold[1] = 0
    /\ \E i \in 1..Len(dExtendedSubList) : dExtendedSubList[i].numInstances > 1

\* C5: a step extends a parent only while limit is above 0 and takes 1 off
\* limit when it does; no other step changes limit; so no more parents
\* are extended than the limit the run started with.
C5_LimitCountsExtendedParents ==
    /\ [][/\ dExtended' = dExtended + 1 => (dLimit > 0 /\ dLimit' = dLimit - 1)
          /\ dExtended' = dExtended => dLimit' = dLimit
          /\ dExtended' \in {dExtended, dExtended + 1}]_vars
    /\ [](dPhase # "unused" =>
             (dLimit >= 0 /\ dExtended + dLimit = dParameters.limit))

\* limit has reached 0 with parents left that would be extended otherwise
C5_Witness ==
    /\ dPhase = "search"
    /\ dLimit = 0
    /\ dExtended = dParameters.limit
    /\ dExtended > 1
    /\ \E i \in 1..Len(dParentSubList) :
          /\ dParentSubList[i].numInstances > 1
          /\ dParameters.evalMethod # EVAL_SETCOVER

\* sprintf("%lu", k)
RECURSIVE Decimal(_)
Decimal(k) ==
    IF k < 10 THEN <<Digits[k + 1]>>
    ELSE Decimal(k \div 10) \o <<Digits[(k % 10) + 1]>>

\* the label CompressFinalGraphs stores for the substructure of iteration k
SubLabel(k) ==
    [labelType |-> STRING_LABEL,
     labelValue |-> SUB_LABEL_STRING \o <<"_">> \o Decimal(k)]

PreviousSubLabels == {SubLabel(k) : k \in 1..MaxIteration}

\* C6: every substructure on the discovered list has at least minVertices
\* and at most maxVertices vertices, and is not a single vertex labelled
\* SUB_<k> by an earlier iteration.
C6_DiscoveredWithinVertexBounds ==
    \A i \in 1..Len(dDiscoveredSubList) :
        LET definition == dDiscoveredSubList[i].definition
        IN  /\ NumVertices(definition) >= dParameters.minVertices
            /\ NumVertices(definition) <= dParameters.maxVertices
            /\ ~(/\ NumVertices(definition) = 1
                 /\ dParameters.labelList[definition.vertices[1].label]
                       \in PreviousSubLabels)

\* a returned list of several substructures, the largest of them of
\* maxVertices vertices, from a host with two vertices labelled SUB_1 and
\* minVertices = 1
C6_Witness ==
    /\ dPhase = "returned"
    /\ dParameters.minVertices = 1
    /\ Len(dDiscoveredSubList) > 1
    /\ \E i \in 1..Len(dDiscoveredSubList) :
          NumVertices(dDiscoveredSubList[i].definition) = dParameters.maxVertices
    /\ \E l \in 1..Len(dParameters.labelList) :
          /\ dParameters.labelList[l] \in PreviousSubLabels
          /\ Cardinality({v \in 1..NumVertices(dParameters.posGraph) :
                             dParameters.posGraph.vertices[v].label = l}) > 1

\* the substructures the search holds
HeldSubs ==
    UNION {{l[i] : i \in 1..Len(l)}
           : l \in {dParentSubList, dChildSubList, dDiscoveredSubList,
                    dExtendedSubList}}

ShareVertex(instance1, instance2) ==
    \E i \in 1..Len(instance1.vertices), j \in 1..Len(instance2.vertices) :
        instance1.vertices[i] = instance2.vertices[j]

NoSharedVertex(instanceList) ==
    \A i \in 1..Len(instanceList), j \in 1..Len(instanceList) :
        i # j => ~ShareVertex(instanceList[i], instanceList[j])

StrictlyIncreasing(array) ==
    \A i \in 1..Len(array), j \in 1..Len(array) : i < j => array[i] < array[j]

SortedAndClosed(instance, graph) ==
    /\ StrictlyIncreasing(instance.vertices)
    /\ StrictlyIncreasing(instance.edges)
    /\ \A k \in 1..Len(instance.edges) :
          /\ \E i \in 1..Len(instance.vertices) :
                instance.vertices[i] = graph.edges[instance.edges[k]].vertex1
          /\ \E i \in 1..Len(instance.vertices) :
                instance.vertices[i] = graph.edges[instance.edges[k]].vertex2

\* C8: in every instance that extensions have made from a one-vertex
\* instance, the vertices and the edges are strictly increasing and both
\* ends of every edge are among the vertices.
C8_InstancesSortedAndClosed ==
    \A sub \in HeldSubs :
        /\ \A k \in 1..Len(sub.instances) :
              SortedAndClosed(sub.instances[k], dParameters.posGraph)
        /\ \A k \in 1..Len(sub.negInstances) :
              SortedAndClosed(sub.negInstances[k], dParameters.negGraph)

\* an instance whose last extension put the new vertex below the other
\* vertices and the new edge below the other edge
C8_Witness ==
    \E sub \in HeldSubs : \E k \in 1..Len(sub.instances) :
        /\ Len(sub.instances[k].vertices) = 3
        /\ Len(sub.instances[k].edges) = 2
        /\ sub.instances[k].newVertex = 1
        /\ sub.instances[k].newEdge = 1

----------------------------------------------------------------------------
(* FindInstances, one turn of its while loop at a time, as the sgiso       *)
(* program calls it on a pattern g1 and a host g2.                         *)

\* a square of undirected edges, its vertices labelled 1, 2, 1, 2
SquareHost ==
    ReadGraph(<<1, 2, 1, 2>>,
              <<DiscoverEdge(1, 2, 1, FALSE), DiscoverEdge(2, 3, 1, FALSE),
                DiscoverEdge(3, 4, 1, FALSE), DiscoverEdge(1, 4, 1, FALSE)>>)

\* a directed cycle of three vertices, one edge of it doubled backwards
\* under the other label
TriangleHost ==
    ReadGraph(<<1, 1, 1>>,
              <<DiscoverEdge(1, 2, 1, TRUE), DiscoverEdge(2, 3, 1, TRUE),
                DiscoverEdge(3, 1, 1, TRUE), DiscoverEdge(2, 1, 2, TRUE)>>)

\* two vertices joined twice, each with a self-loop
LoopsHost ==
    ReadGraph(<<1, 1>>,
              <<DiscoverEdge(1, 2, 1, FALSE), DiscoverEdge(1, 2, 1, FALSE),
                DiscoverEdge(1, 1, 1, TRUE), DiscoverEdge(2, 2, 1, TRUE)>>)

FinderHosts == {SquareHost, TriangleHost, LoopsHost}

\* what an unset slot may hold: vertex 0 of the C arrays, or no vertex
FinderGarbage == {1, MAX_UNSIGNED_LONG}

FinderInputs ==
    [g1 : MatchGraphs, g2 : FinderHosts, threshold : DiscoverThresholds,
     allowInstanceOverlap : BOOLEAN, garbage : FinderGarbage]

FinderInit ==
    /\ MatcherUnused
    /\ SubListUnused
    /\ DiscoverUnused
    /\ CompressUnused
    /\ IterUnused
    /\ RefUnused
    /\ EvalUnused
    /\ ParentUnused
    /\ QueueUnused
    /\ fInput \in FinderInputs
    /\ fSearch = FindInstancesStart(fInput.g1, fInput.g2, fInput.garbage)
    /\ fInstanceList = <<>>

\* one turn of the while loop
ExtendFromVertex ==
    /\ fSearch.phase = "extend"
    /\ fSearch.v1 # 0
    /\ ~fSearch.noMatches
    /\ fSearch' = FindInstancesStep(fInput.g1, fInput.g2, fSearch)
    /\ UNCHANGED <<fInput, fInstanceList, matcherVars, subListVars, discoverVars, compressVars, iterVars, refVars, evalVars, parentVars, queueVars>>

\* the loop is left: the instances are filtered and returned
ReturnFiltered ==
    /\ fSearch.phase = "extend"
    /\ fSearch.v1 = 0 \/ fSearch.noMatches
    /\ fInstanceList' = FilterInstances(fInput.g1, fSearch.instanceList,
                                        fInput.g2, fInput)
    /\ fSearch' = [phase |-> "returned", candidates |-> fSearch.instanceList,
                   \* set used flags to FALSE
                   vertexUsed |-> [v \in DOMAIN fSearch.vertexUsed |-> FALSE],
                   edgeUsed |-> [e \in DOMAIN fSearch.edgeUsed |-> FALSE],
                   hostFlags |-> fSearch.hostFlags]
    /\ UNCHANGED <<fInput, matcherVars, subListVars, discoverVars, compressVars, iterVars, refVars, evalVars, parentVars, queueVars>>

FinderNext == ExtendFromVertex \/ ReturnFiltered

FinderSpec == FinderInit /\ [][FinderNext]_vars

\* a run of the discovery or a run of the finder
InstancesInit == DiscoverInit \/ FinderInit

InstancesNext == DiscoverNext \/ FinderNext

InstancesSpec == InstancesInit /\ [][InstancesNext]_vars

\* C7: with allowInstanceOverlap FALSE, no two instances on the positive
\* or the negative instance list of a substructure of the search, and no
\* two instances on the list the finder returns, have a host vertex in
\* common.
C7_NoSharedVertexUnlessAllowed ==
    /\ (dPhase # "unused" /\ ~dParameters.allowInstanceOverlap) =>
          \A sub \in HeldSubs :
              NoSharedVertex(sub.instances) /\ NoSharedVertex(sub.negInstances)
    /\ (fSearch.phase = "returned" /\ ~fInput.allowInstanceOverlap) =>
          NoSharedVertex(fInstanceList)

\* the finder has returned two instances and left out a candidate that
\* matches the pattern and shares a vertex with one of them
C7_Witness ==
    /\ fSearch.phase = "returned"
    /\ ~fInput.allowInstanceOverlap
    /\ Len(fInstanceList) > 1
    /\ \E k \in 1..Len(fSearch.candidates) :
          /\ ~MemberOfInstanceList(fSearch.candidates[k], fInstanceList)
          /\ GraphMatch(fInput.g1,
                        InstanceToGraph(fSearch.candidates[k], fInput.g2),
                        ThresholdLimit(fInput.threshold, fSearch.candidates[k]),
                        <<>>).match

\* ExtendSub has built a substructure with two positive instances and left
\* out a new instance that shares a vertex with one of them
C7_ExtensionCase ==
    /\ dPhase # "unused"
    /\ ~dParameters.allowInstanceOverlap
    /\ \E i \in 1..Len(dExtendedSubList) :
          Len(dExtendedSubList[i].instances) > 1

----------------------------------------------------------------------------
(* compress.c: compressing a graph with the instances of a substructure.   *)
(* The flags of the graph being compressed are threaded through.           *)

\* the marking loop of CompressGraph (assignMap) and of SizeOfCompressedGraph
\* (no assignMap) from instance instanceNo on: st holds the flags and the
\* two counters
RECURSIVE MarkAndCount(_, _, _, _)
MarkAndCount(instanceList, instanceNo, assignMap, st) ==
    IF instanceNo > Len(instanceList) THEN st
    ELSE LET instance == instanceList[instanceNo]
             newVertices == {v \in InstanceVertices(instance) : ~st.flags.vertexUsed[v]}
             newEdges == {e \in InstanceEdges(instance) : ~st.flags.edgeUsed[e]}
         IN  MarkAndCount(instanceList, instanceNo + 1, assignMap,
                [numInstanceVertices |-> st.numInstanceVertices + Cardinality(newVertices),
                 numInstanceEdges |-> st.numInstanceEdges + Cardinality(newEdges),
                 flags |->
                    [vertexUsed |-> [v \in DOMAIN st.flags.vertexUsed |->
                                        st.flags.vertexUsed[v] \/ v \in newVertices],
                     edgeUsed |-> [e \in DOMAIN st.flags.edgeUsed |->
                                        st.flags.edgeUsed[e] \/ e \in newEdges],
                     \* assign vertex to first instance it occurs in
                     map |-> [v \in DOMAIN st.flags.map |->
                                 IF assignMap /\ v \in newVertices THEN instanceNo
                                 ELSE st.flags.map[v]]]])

\* a copy that takes every vertex, marked or not
RECURSIVE CopyAllVertices(_, _, _)
CopyAllVertices(g1, v, st) ==
    IF v > NumVertices(g1) THEN st
    ELSE CopyAllVertices(g1, v + 1,
            [g2 |-> AddVertex(st.g2, g1.vertices[v].label),
             flags |-> [st.flags EXCEPT !.map[v] = NumVertices(st.g2) + 1]])

\* the vertex loop of CopyUnmarkedGraph from vertex v on
RECURSIVE CopyUnmarkedVertices(_, _, _)
CopyUnmarkedVertices(g1, v, st) ==
    IF v > NumVertices(g1) THEN st
    ELSE CopyUnmarkedVertices(g1, v + 1,
            IF st.flags.vertexUsed[v] THEN st
            ELSE [g2 |-> AddVertex(st.g2, g1.vertices[v].label),
                  flags |-> [st.flags EXCEPT !.map[v] = NumVertices(st.g2) + 1]])

\* the edge loop of CopyUnmarkedGraph from edge e on
RECURSIVE CopyUnmarkedEdges(_, _, _)
CopyUnmarkedEdges(g1, e, st) ==
    IF e > NumEdges(g1) THEN st
    ELSE CopyUnmarkedEdges(g1, e + 1,
            IF st.flags.edgeUsed[e] THEN st
            ELSE [st EXCEPT !.g2 = AddEdge(@, st.flags.map[g1.edges[e].vertex1],
                                           st.flags.map[g1.edges[e].vertex2],
                                           g1.edges[e].directed, g1.edges[e].label)])

\* st.g2 holds the SUB vertices already
CopyUnmarkedGraph(g1, st) ==
    CopyUnmarkedEdges(g1, 1, CopyUnmarkedVertices(g1, 1, st))

AddOverlapEdge(overlapEdges, sub1VertexIndex, sub2VertexIndex, overlapLabelIndex) ==
    IF \E e \in 1..Len(overlapEdges) :
          /\ overlapEdges[e].vertex1 = sub1VertexIndex
          /\ overlapEdges[e].vertex2 = sub2VertexIndex
    THEN overlapEdges
    ELSE Append(overlapEdges, [vertex1 |-> sub1VertexIndex,
                               vertex2 |-> sub2VertexIndex,
                               label |-> overlapLabelIndex,
                               directed |-> FALSE])

AddDuplicateEdges(overlapEdges, edge, flags, sub1VertexIndex, sub2VertexIndex) ==
    LET Duplicate(v1, v2) == [vertex1 |-> v1, vertex2 |-> v2,
                              label |-> edge.label, directed |-> edge.directed]
    IN  IF flags.map[edge.vertex1] # sub1VertexIndex
        THEN \* duplicate edge from external vertex
             Append(overlapEdges, Duplicate(flags.map[edge.vertex1], sub2VertexIndex))
        ELSE IF flags.map[edge.vertex2] # sub1VertexIndex
        THEN \* duplicate edge to an external vertex
             Append(overlapEdges, Duplicate(sub2VertexIndex, flags.map[edge.vertex2]))
        ELSE \* edge connects Sub1 to another (or same) vertex in Sub1
             overlapEdges
             \o <<Duplicate(sub1VertexIndex, sub2VertexIndex)>>
             \o (IF ~flags.vertexUsed[edge.vertex1] \/ ~flags.vertexUsed[edge.vertex2]
                 THEN <<Duplicate(sub2VertexIndex, sub2VertexIndex)>> ELSE <<>>)
             \o (IF edge.vertex1 = edge.vertex2
                 THEN <<Duplicate(sub2VertexIndex, sub2VertexIndex)>>
                      \o (IF edge.directed
                          THEN <<Duplicate(sub2VertexIndex, sub1VertexIndex)>>
                          ELSE <<>>)
                 ELSE <<>>)

\* the loop over the edge array of vertex1, from position e on
RECURSIVE DuplicateExternalEdges(_, _, _, _, _, _, _)
DuplicateExternalEdges(overlapEdges, graph, vertex1, e, flags, instanceNo1, instanceNo2) ==
    IF e > Len(graph.vertices[vertex1].edges) THEN overlapEdges
    ELSE DuplicateExternalEdges(
            IF ~flags.edgeUsed[graph.vertices[vertex1].edges[e]]
            THEN AddDuplicateEdges(overlapEdges,
                                   graph.edges[graph.vertices[vertex1].edges[e]],
                                   flags, instanceNo1, instanceNo2)
            ELSE overlapEdges,
            graph, vertex1, e + 1, flags, instanceNo1, instanceNo2)

\* the loop over instance2 after instance1, from instanceNo2 on; an
\* instance holds a vertex at most once
RECURSIVE OverlapWithLater(_, _, _, _, _, _, _, _)
OverlapWithLater(overlapEdges, graph, instanceList, vertex1, flags, instanceNo1, instanceNo2, overlapLabelIndex) ==
    IF instanceNo2 > Len(instanceList) THEN overlapEdges
    ELSE OverlapWithLater(
            IF vertex1 \in InstanceVertices(instanceList[instanceNo2])
            THEN DuplicateExternalEdges(
                    AddOverlapEdge(overlapEdges, instanceNo1, instanceNo2,
                                   overlapLabelIndex),
                    graph, vertex1, 1, flags, instanceNo1, instanceNo2)
            ELSE overlapEdges,
            graph, instanceList, vertex1, flags, instanceNo1, instanceNo2 + 1,
            overlapLabelIndex)

\* the two outer loops of AddOverlapEdges and of NumOverlapEdges, from
\* vertex v1 of instance instanceNo1 on: st = [flags, overlapEdges]
RECURSIVE CollectOverlapEdges(_, _, _, _, _, _)
CollectOverlapEdges(graph, instanceList, instanceNo1, v1, overlapLabelIndex, st) ==
    IF instanceNo1 > Len(instanceList) THEN st
    ELSE IF v1 > Len(instanceList[instanceNo1].vertices)
    THEN CollectOverlapEdges(graph, instanceList, instanceNo1 + 1, 1,
                             overlapLabelIndex, st)
    ELSE LET vertex1 == instanceList[instanceNo1].vertices[v1]
         IN  CollectOverlapEdges(graph, instanceList, instanceNo1, v1 + 1,
                overlapLabelIndex,
                IF st.flags.vertexUsed[vertex1]
                THEN [flags |-> [st.flags EXCEPT !.vertexUsed[vertex1] = FALSE],
                      overlapEdges |->
                         OverlapWithLater(st.overlapEdges, graph, instanceList,
                                          vertex1, st.flags, instanceNo1,
                                          instanceNo1 + 1, overlapLabelIndex)]
                ELSE st)

\* st = [g2, flags]: the overlap edges are appended to the compressed graph
AddOverlapEdges(graph, instanceList, overlapLabelIndex, st) ==
    LET collected == CollectOverlapEdges(graph, instanceList, 1, 1,
                        overlapLabelIndex,
                        [flags |-> st.flags, overlapEdges |-> <<>>])
    IN  [g2 |-> AddEdges(st.g2, collected.overlapEdges, 1),
         flags |-> collected.flags]

\* a reset that leaves the edges marked
RECURSIVE UnmarkInstanceVertices(_, _, _)
UnmarkInstanceVertices(instanceList, instanceNo, flags) ==
    IF instanceNo > Len(instanceList) THEN flags
    ELSE UnmarkInstanceVertices(instanceList, instanceNo + 1,
            MarkInstanceVertices(instanceList[instanceNo], flags, FALSE))

\* reset used flag of instances' vertices and edges
RECURSIVE UnmarkInstances(_, _, _)
UnmarkInstances(instanceList, instanceNo, flags) ==
    IF instanceNo > Len(instanceList) THEN flags
    ELSE UnmarkInstances(instanceList, instanceNo + 1,
            MarkInstanceEdges(instanceList[instanceNo],
                MarkInstanceVertices(instanceList[instanceNo], flags, FALSE),
                FALSE))

\* numLabels is labelList->numLabels: SUB and OVERLAP take the next two
\* label indices.  The result is [compressedGraph, flags, nv, ne], nv and
\* ne being the sizes the compressed graph was allocated with.
CompressGraph(graph, flags, instanceList, numLabels, allowInstanceOverlap) ==
    LET subLabelIndex == numLabels + 1
        overlapLabelIndex == numLabels + 2
        marked == MarkAndCount(instanceList, 1, TRUE,
                     [numInstanceVertices |-> 0, numInstanceEdges |-> 0,
                      flags |-> flags])
        numInstances == Len(instanceList)
        subVertices == AddVertices(AllocateGraph,
                          [v \in 1..numInstances |-> subLabelIndex], 1)
        copied == CopyUnmarkedGraph(graph, [g2 |-> subVertices,
                                            flags |-> marked.flags])
        overlapped == IF allowInstanceOverlap
                      THEN AddOverlapEdges(graph, instanceList,
                                           overlapLabelIndex, copied)
                      ELSE copied
    IN  [compressedGraph |-> overlapped.g2,
         flags |-> UnmarkInstances(instanceList, 1, overlapped.flags),
         nv |-> NumVertices(graph) - marked.numInstanceVertices + numInstances,
         ne |-> NumEdges(graph) - marked.numInstanceEdges]

\* a size that leaves out the vertices the instances are replaced by
SizeOfCompressedGraphCallWithoutSubs(graph, flags, instanceList, allowInstanceOverlap) ==
    [size |-> GraphSize(graph)
              - SumOver(1..Len(instanceList),
                   [a \in 1..Len(instanceList) |->
                       Len(instanceList[a].vertices) + Len(instanceList[a].edges)]),
     flags |-> flags]

\* SizeOfCompressedGraph with the flags it works on: [size, flags]
SizeOfCompressedGraphCall(graph, flags, instanceList, allowInstanceOverlap) ==
    IF allowInstanceOverlap
    THEN LET marked == MarkAndCount(instanceList, 1, FALSE,
                          [numInstanceVertices |-> 0, numInstanceEdges |-> 0,
                           flags |-> flags])
             collected == CollectOverlapEdges(graph, instanceList, 1, 1, 0,
                             [flags |-> marked.flags, overlapEdges |-> <<>>])
         IN  [size |-> GraphSize(graph) + Len(instanceList)
                       - marked.numInstanceVertices - marked.numInstanceEdges
                       + Len(collected.overlapEdges),
              flags |-> UnmarkInstances(instanceList, 1, collected.flags)]
    ELSE [size |-> GraphSize(graph)
                   + SumOver(1..Len(instanceList),
                        [a \in 1..Len(instanceList) |->
                            1 - (Len(instanceList[a].vertices)
                                 + Len(instanceList[a].edges))]),
          flags |-> flags]

----------------------------------------------------------------------------
(* The compression calls of a run: the graph is the positive graph, the    *)
(* instance lists are those of the substructures being evaluated.          *)

\* a hub a joined to three b vertices
StarHost ==
    [labelList |-> <<DiscoverLabel(<<"a">>), DiscoverLabel(<<"b">>),
                     DiscoverLabel(<<"e">>)>>,
     pos |-> [graph |-> ReadGraph(<<1, 2, 2, 2>>,
                           <<DiscoverEdge(1, 2, 3, FALSE),
                             DiscoverEdge(1, 3, 3, FALSE),
                             DiscoverEdge(1, 4, 3, FALSE)>>),
              numEgs |-> 1, egsVertexIndices |-> <<1>>],
     neg |-> NoExamples]

CompressHosts == {CycleHost, PathHost, ParallelHost, StarHost}

SortedSeq(S) ==
    CHOOSE s \in [1..Cardinality(S) -> S] :
        \A i, j \in 1..Cardinality(S) : i < j => s[i] < s[j]

EdgeEnds(graph, E) ==
    UNION {{graph.edges[e].vertex1, graph.edges[e].vertex2} : e \in E}

RECURSIVE ReachedBy(_, _, _)
ReachedBy(graph, E, R) ==
    LET next == R \cup EdgeEnds(graph, {e \in E : EdgeEnds(graph, {e}) \cap R # {}})
    IN  IF next = R THEN R ELSE ReachedBy(graph, E, next)

\* the instances of numEdges edges a substructure can have in the graph:
\* connected, the arrays in increasing order
CandidateInstances(graph, numEdges) ==
    IF numEdges = 0
    THEN {[vertices |-> <<v>>, edges |-> <<>>] : v \in 1..NumVertices(graph)}
    ELSE {[vertices |-> SortedSeq(EdgeEnds(graph, E)), edges |-> SortedSeq(E)] :
            E \in {F \in SUBSET (1..NumEdges(graph)) :
                     /\ Cardinality(F) = numEdges
                     /\ ReachedBy(graph, F, EdgeEnds(graph, {Min(F)}))
                           = EdgeEnds(graph, F)}}

\* the instance lists of a substructure: distinct instances with the same
\* number of edges, sharing no vertex unless overlap is allowed
CandidateLists(graph, allowInstanceOverlap) ==
    UNION {UNION {{l \in [1..n -> CandidateInstances(graph, numEdges)] :
                     \A a, b \in 1..n :
                        a < b => /\ l[a] # l[b]
                                 /\ (allowInstanceOverlap
                                     \/ InstanceVertices(l[a])
                                           \cap InstanceVertices(l[b]) = {})} :
                  n \in 1..MaxInstances} :
           numEdges \in 0..MaxInstanceEdges}

\* extend.c, ExtendInstances from instance instanceNo on, with the used
\* flags it works on: st = [flags, extensions], an extension being the
\* instance, the vertex and the unmarked edge a new instance is made from
RECURSIVE ExtendInstancesMarking(_, _, _, _)
ExtendInstancesMarking(instanceList, graph, instanceNo, st) ==
    IF instanceNo > Len(instanceList) THEN st
    ELSE LET instance == instanceList[instanceNo]
             marked == MarkInstanceEdges(instance, st.flags, TRUE)
             found == UNION {{<<instanceNo, v, graph.vertices[v].edges[e]>> :
                                e \in {i \in 1..Len(graph.vertices[v].edges) :
                                          ~marked.edgeUsed[graph.vertices[v].edges[i]]}} :
                             v \in InstanceVertices(instance)}
         IN  ExtendInstancesMarking(instanceList, graph, instanceNo + 1,
                [flags |-> MarkInstanceEdges(instance, marked, FALSE),
                 extensions |-> st.extensions \cup found])

NoCall == [name |-> "none"]

CompressInit ==
    /\ \E host \in CompressHosts, allowInstanceOverlap \in BOOLEAN,
          evalMethod \in {EVAL_MDL, EVAL_SIZE} :
          /\ cParameters = [allowInstanceOverlap |-> allowInstanceOverlap,
                            evalMethod |-> evalMethod]
          /\ cLabelList = host.labelList
          /\ cGraph = host.pos.graph
          /\ cFlags = ClearedFlags(host.pos.graph)
    /\ cCall = NoCall
    /\ MatcherUnused
    /\ SubListUnused
    /\ DiscoverUnused
    /\ FinderUnused
    /\ IterUnused
    /\ RefUnused
    /\ EvalUnused
    /\ ParentUnused
    /\ QueueUnused

\* EvaluateSub under MDL: the positive graph compressed with the instances
EvaluateByCompressGraph ==
    /\ cCall.name # "unused"
    /\ cParameters.evalMethod = EVAL_MDL
    /\ \E instanceList \in CandidateLists(cGraph, cParameters.allowInstanceOverlap) :
          LET compressed == CompressGraph(cGraph, cFlags, instanceList,
                               Len(cLabelList), cParameters.allowInstanceOverlap)
          IN  /\ cFlags' = compressed.flags
              /\ cCall' = [name |-> "CompressGraph",
                           instanceList |-> instanceList,
                           compressedGraph |-> compressed.compressedGraph,
                           nv |-> compressed.nv, ne |-> compressed.ne]
    /\ UNCHANGED <<cParameters, cLabelList, cGraph, matcherVars, subListVars, discoverVars, finderVars, iterVars, refVars, evalVars, parentVars, queueVars>>

\* EvaluateSub under SIZE: the size of the positive graph as if compressed
EvaluateBySize ==
    /\ cCall.name # "unused"
    /\ cParameters.evalMethod = EVAL_SIZE
    /\ \E instanceList \in CandidateLists(cGraph, cParameters.allowInstanceOverlap) :
          LET sized == SizeOfCompressedGraphCall(cGraph, cFlags, instanceList,
                          cParameters.allowInstanceOverlap)
          IN  /\ cFlags' = sized.flags
              /\ cCall' = [name |-> "SizeOfCompressedGraph",
                           instanceList |-> instanceList,
                           size |-> sized.size]
    /\ UNCHANGED <<cParameters, cLabelList, cGraph, matcherVars, subListVars, discoverVars, finderVars, iterVars, refVars, evalVars, parentVars, queueVars>>

\* the definition CreateSubFromInstance gives the substructure of the
\* instance extended from vertex v by edge e
ExtendedDefinition(instance, v, e, graph) ==
    CreateSubFromInstance(
        CreateExtendedInstance(
            AllocateInstance(instance.vertices, instance.edges,
                [k \in 1..Len(instance.vertices) |->
                    [v1 |-> k, v2 |-> instance.vertices[k]]]),
            v, e, graph),
        graph).definition

\* ExtendSub of a substructure that EvaluateSub has evaluated: its instances
\* extended by one edge
ExtendInstancesInGraph ==
    /\ cCall.name \in {"CompressGraph", "SizeOfCompressedGraph"}
    /\ LET extended == ExtendInstancesMarking(cCall.instanceList, cGraph, 1,
                          [flags |-> cFlags, extensions |-> {}])
       IN  /\ cFlags' = extended.flags
           /\ cCall' = [name |-> "ExtendInstances",
                        instanceList |-> cCall.instanceList,
                        extensions |-> extended.extensions,
                        definitions |->
                           {ExtendedDefinition(cCall.instanceList[x[1]],
                                               x[2], x[3], cGraph) :
                              x \in extended.extensions}]
    /\ UNCHANGED <<cParameters, cLabelList, cGraph, matcherVars, subListVars, discoverVars, finderVars, iterVars, refVars, evalVars, parentVars, queueVars>>

CompressNext == EvaluateByCompressGraph \/ EvaluateBySize

CompressSpec == CompressInit /\ [][CompressNext]_vars

GraphsNext == CompressNext \/ ExtendInstancesInGraph

GraphsSpec == CompressInit /\ [][GraphsNext]_vars

----------------------------------------------------------------------------
(* Properties of compression.                                              *)

UncoveredVertices(graph, instanceList) ==
    (1..NumVertices(graph)) \ MarkedVertices(instanceList)

\* where a vertex of the graph is found in the compressed graph: the SUB
\* vertex of the first instance holding it, or its own copy after the SUB
\* vertices
SlotOf(graph, instanceList, x) ==
    IF x \in MarkedVertices(instanceList)
    THEN Min({a \in 1..Len(instanceList) : x \in InstanceVertices(instanceList[a])})
    ELSE Len(instanceList)
         + Cardinality({y \in UncoveredVertices(graph, instanceList) : y <= x})

\* the edges of the graph held by no instance, in increasing order
OutsideEdges(graph, instanceList) ==
    SortedSeq((1..NumEdges(graph)) \ MarkedEdges(instanceList))

\* C11: the graph CompressGraph returns has one SUB vertex per instance in
\* its first slots, in instance-list order, then one copy of each vertex of
\* the graph that no instance holds; its number of vertices is that of the
\* graph, minus the distinct vertices the instances hold, plus the number
\* of instances.  Every edge outside the instances is copied with its end
\* points at the slots of their vertices, an end point held by instances at
\* the SUB vertex of the first instance holding it.
C11_SubVerticesThenUncovered ==
    cCall.name = "CompressGraph" =>
        LET instanceList == cCall.instanceList
            compressedGraph == cCall.compressedGraph
            outside == OutsideEdges(cGraph, instanceList)
        IN  /\ NumVertices(compressedGraph)
                  = NumVertices(cGraph)
                    - Cardinality(MarkedVertices(instanceList))
                    + Len(instanceList)
            /\ cCall.nv = NumVertices(compressedGraph)
            /\ \A i \in 1..Len(instanceList) :
                  compressedGraph.vertices[i].label = Len(cLabelList) + 1
            /\ \A x \in UncoveredVertices(cGraph, instanceList) :
                  /\ SlotOf(cGraph, instanceList, x) \in
                        (Len(instanceList) + 1)..NumVertices(compressedGraph)
                  /\ compressedGraph.vertices[SlotOf(cGraph, instanceList, x)].label
                        = cGraph.vertices[x].label
            /\ NumEdges(compressedGraph) >= Len(outside)
            /\ \A k \in 1..Len(outside) :
                  compressedGraph.edges[k] =
                     [vertex1 |-> SlotOf(cGraph, instanceList,
                                         cGraph.edges[outside[k]].vertex1),
                      vertex2 |-> SlotOf(cGraph, instanceList,
                                         cGraph.edges[outside[k]].vertex2),
                      label |-> cGraph.edges[outside[k]].label,
                      directed |-> cGraph.edges[outside[k]].directed]

\* two instances sharing a vertex, a vertex outside them, and an edge
\* from that vertex to the shared one
C11_Witness ==
    /\ cCall.name = "CompressGraph"
    /\ Len(cCall.instanceList) = 2
    /\ InstanceVertices(cCall.instanceList[1])
          \cap InstanceVertices(cCall.instanceList[2]) # {}
    /\ \E e \in 1..NumEdges(cGraph) :
          /\ e \notin MarkedEdges(cCall.instanceList)
          /\ \E x \in UncoveredVertices(cGraph, cCall.instanceList) :
                x \in {cGraph.edges[e].vertex1, cGraph.edges[e].vertex2}
          /\ \E x \in InstanceVertices(cCall.instanceList[1])
                         \cap InstanceVertices(cCall.instanceList[2]) :
                x \in {cGraph.edges[e].vertex1, cGraph.edges[e].vertex2}

SharesVertex(instanceList, a, b) ==
    InstanceVertices(instanceList[a]) \cap InstanceVertices(instanceList[b]) # {}

\* the undirected OVERLAP edges between two vertices of the compressed graph
OverlapEdgesBetween(compressedGraph, a, b, overlapLabelIndex) ==
    {e \in 1..NumEdges(compressedGraph) :
        /\ {compressedGraph.edges[e].vertex1, compressedGraph.edges[e].vertex2}
              = {a, b}
        /\ compressedGraph.edges[e].label = overlapLabelIndex
        /\ ~compressedGraph.edges[e].directed}

\* C12: with overlap allowed, the graph CompressGraph returns holds exactly
\* one undirected OVERLAP edge between the SUB vertices of every two
\* instances that share a vertex, however many instances there are.
C12_OneOverlapEdgePerSharingPair ==
    (cCall.name = "CompressGraph" /\ cParameters.allowInstanceOverlap) =>
        \A a, b \in 1..Len(cCall.instanceList) :
            (a < b /\ SharesVertex(cCall.instanceList, a, b)) =>
                Cardinality(OverlapEdgesBetween(cCall.compressedGraph, a, b,
                                                Len(cLabelList) + 2)) = 1

\* C13: SizeOfCompressedGraph returns the number of vertices plus the
\* number of edges of the graph CompressGraph returns for the same graph,
\* instance list and overlap setting.
C13_SizeIsThatOfCompressGraph ==
    cCall.name = "SizeOfCompressedGraph" =>
        cCall.size = GraphSize(CompressGraph(cGraph, ClearedFlags(cGraph),
                                             cCall.instanceList, Len(cLabelList),
                                             cParameters.allowInstanceOverlap)
                                  .compressedGraph)

----------------------------------------------------------------------------
(* The used flags of the graphs handed to compression, to instance         *)
(* extension, to the subgraph finder and to the matcher.                   *)

\* the compression calls; the finder on a pattern with an edge, under a
\* threshold that admits inexact instances; the matcher on graphs of two
\* edges or more, under a threshold that makes it search
FlagsInit ==
    \/ CompressInit
    \/ /\ FinderInit
       /\ NumEdges(fInput.g1) >= 1
       /\ fInput.threshold[1] # 0
       /\ fInput.garbage = 1
    \/ /\ MatcherInit
       /\ NumVertices(mG1) >= 2
       /\ NumEdges(mG1) >= 2
       /\ mThreshold[1] # 0

FlagsNext == GraphsNext \/ FinderNext \/ MatcherNext

FlagsSpec == FlagsInit /\ [][FlagsNext]_vars

NoneUsed(flags) ==
    /\ \A v \in DOMAIN flags.vertexUsed : ~flags.vertexUsed[v]
    /\ \A e \in DOMAIN flags.edgeUsed : ~flags.edgeUsed[e]

\* C14: the graphs start with every used flag clear.  When CompressGraph,
\* SizeOfCompressedGraph or ExtendInstances has returned, every vertex and
\* edge of the graph has its used flag clear, whether or not the instances
\* overlap; when FindInstances has returned, so have the pattern and the
\* host; and after every pass of the matcher, and when it has returned,
\* no edge of its second graph has its used flag set.
C14_UsedFlagsClearOnReturn ==
    /\ cCall.name \in {"CompressGraph", "SizeOfCompressedGraph", "ExtendInstances"}
          => NoneUsed(cFlags)
    /\ fSearch.phase = "returned"
          => /\ NoneUsed(fSearch)
             /\ NoneUsed(fSearch.hostFlags)
    /\ mUsed = {}

\* CompressGraph has returned from overlapping instances, with overlap
\* allowed
C14_Witness ==
    /\ cCall.name = "CompressGraph"
    /\ cParameters.allowInstanceOverlap
    /\ \E a, b \in 1..Len(cCall.instanceList) :
          a < b /\ SharesVertex(cCall.instanceList, a, b)
    /\ \E e \in 1..NumEdges(cCall.compressedGraph) :
          cCall.compressedGraph.edges[e].label = Len(cLabelList) + 2

----------------------------------------------------------------------------
(* The edge arrays of the vertices.                                        *)

\* how often edge e stands in the edge array of vertex v
TimesInEdgeArray(graph, v, e) ==
    Cardinality({i \in 1..Len(graph.vertices[v].edges) :
                   graph.vertices[v].edges[i] = e})

EdgeArraysMatchEdges(graph) ==
    /\ \A v \in 1..NumVertices(graph) :
          \A i \in 1..Len(graph.vertices[v].edges) :
             graph.vertices[v].edges[i] \in 1..NumEdges(graph)
    /\ \A e \in 1..NumEdges(graph) :
          \A v \in 1..NumVertices(graph) :
             TimesInEdgeArray(graph, v, e) =
                IF v \in {graph.edges[e].vertex1, graph.edges[e].vertex2}
                THEN 1 ELSE 0

\* C16: in the graph read with AddEdge, in the graph CompressGraph returns
\* (the OVERLAP edges and the duplicated edges among its edges) and in the
\* definition made of an extended instance by InstanceToGraph, the index of
\* every edge stands exactly once in the edge array of each of its end
\* points, once in all for a self-edge, and in no other edge array.
C16_EdgeOnceInEachEndPointArray ==
    cCall.name # "unused" =>
        /\ EdgeArraysMatchEdges(cGraph)
        /\ cCall.name = "CompressGraph"
              => EdgeArraysMatchEdges(cCall.compressedGraph)
        /\ cCall.name = "ExtendInstances"
              => \A definition \in cCall.definitions :
                    EdgeArraysMatchEdges(definition)

\* CompressGraph has returned a graph with an OVERLAP edge and with a
\* self-edge among the edges it added for overlapping instances
C16_Witness ==
    /\ cCall.name = "CompressGraph"
    /\ \E e \in 1..NumEdges(cCall.compressedGraph) :
          cCall.compressedGraph.edges[e].label = Len(cLabelList) + 2
    /\ \E e \in (cCall.ne + 1)..NumEdges(cCall.compressedGraph) :
          /\ cCall.compressedGraph.edges[e].label # Len(cLabelList) + 2
          /\ cCall.compressedGraph.edges[e].vertex1
                = cCall.compressedGraph.edges[e].vertex2

----------------------------------------------------------------------------
(* labels.c and compress.c: the label list rebuilt after a compression.    *)

\* the graph pointer that points to no graph
NULL == [null |-> TRUE]

IsNull(graph) == "null" \in DOMAIN graph

OVERLAP_LABEL_STRING == <<"O", "V", "E", "R", "L", "A", "P">>

\* the index of the label in the list, or the number of labels plus one
GetLabelIndex(label, labelList) ==
    LET Same(i) == /\ labelList[i].labelType = label.labelType
                   /\ label.labelType \in {STRING_LABEL, NUMERIC_LABEL}
                   /\ labelList[i].labelValue = label.labelValue
        found == {i \in 1..Len(labelList) : Same(i)}
    IN  IF found = {} THEN Len(labelList) + 1 ELSE Min(found)

\* [labelIndex, labelList]
StoreLabel(label, labelList) ==
    LET labelIndex == GetLabelIndex(label, labelList)
    IN  [labelIndex |-> labelIndex,
         labelList |-> IF labelIndex = Len(labelList) + 1
                       THEN Append(labelList, label) ELSE labelList]

\* the label of iteration k for the edges between overlapping instances
OverlapLabel(k) ==
    [labelType |-> STRING_LABEL,
     labelValue |-> OVERLAP_LABEL_STRING \o <<"_">> \o Decimal(k)]

\* What labelList->labels[index] holds past the stored labels is not
\* defined: the read faults, or yields whatever the memory holds, here a
\* label of no known type or a numeric label.
NoLabelType == 2

FaultingRead == [fault |-> TRUE, labelType |-> NoLabelType, labelValue |-> 0]

UnsetLabels ==
    {FaultingRead}
    \cup [fault : {FALSE}, labelType : {NoLabelType, NUMERIC_LABEL},
          labelValue : {0}]

\* the loops of CompressLabelListWithGraph, from vertex or edge k on (the
\* edges follow the vertices): st = [newLabelList, graph, fault]
RECURSIVE CompressLabelListFrom(_, _, _, _)
CompressLabelListFrom(k, labelList, unset, st) ==
    LET nv == NumVertices(st.graph)
        index == IF k <= nv THEN st.graph.vertices[k].label
                 ELSE st.graph.edges[k - nv].label
    IN  IF st.fault \/ k > nv + NumEdges(st.graph) THEN st
        ELSE IF index > Len(labelList) /\ unset.fault
        THEN [st EXCEPT !.fault = TRUE]
        ELSE LET label == IF index > Len(labelList)
                          THEN [labelType |-> unset.labelType,
                                labelValue |-> unset.labelValue]
                          ELSE labelList[index]
                 stored == StoreLabel(label, st.newLabelList)
             IN  CompressLabelListFrom(k + 1, labelList, unset,
                    [newLabelList |-> stored.labelList,
                     graph |-> IF k <= nv
                               THEN [st.graph EXCEPT
                                       !.vertices[k].label = stored.labelIndex]
                               ELSE [st.graph EXCEPT
                                       !.edges[k - nv].label = stored.labelIndex],
                     fault |-> FALSE])

CompressLabelListWithGraph(newLabelList, graph, labelList, unset) ==
    CompressLabelListFrom(1, labelList, unset,
        [newLabelList |-> newLabelList, graph |-> graph, fault |-> FALSE])

InstancesOverlap(instanceList) ==
    \E a, b \in 1..Len(instanceList) :
        a < b /\ InstanceOverlap(instanceList[a], instanceList[b])

\* CompressFinalGraphs with predefinedSub = FALSE: the parameters it leaves,
\* and whether it faulted
CompressFinalGraphs(sub, parameters, k, unset) ==
    LET Compressed(graph, instanceList) ==
            IF Len(instanceList) > 0
            THEN CompressGraph(graph, ClearedFlags(graph), instanceList,
                               Len(parameters.labelList),
                               parameters.allowInstanceOverlap).compressedGraph
            ELSE graph
        compressedPosGraph == Compressed(parameters.posGraph, sub.instances)
        compressedNegGraph ==
            IF IsNull(parameters.negGraph) THEN NULL
            ELSE Compressed(parameters.negGraph, sub.negInstances)
        withSub == StoreLabel(SubLabel(k), parameters.labelList).labelList
        labelList ==
            IF /\ parameters.allowInstanceOverlap
               /\ InstancesOverlap(sub.instances) \/ InstancesOverlap(sub.negInstances)
            THEN StoreLabel(OverlapLabel(k), withSub).labelList
            ELSE withSub
        pos == CompressLabelListWithGraph(<<>>, compressedPosGraph, labelList, unset)
        neg == IF IsNull(compressedNegGraph) \/ pos.fault
               THEN [pos EXCEPT !.graph = compressedNegGraph]
               ELSE CompressLabelListWithGraph(pos.newLabelList,
                                               compressedNegGraph, labelList, unset)
    IN  [parameters |->
            [parameters EXCEPT
               !.posGraph = pos.graph,
               !.negGraph = neg.graph,
               !.labelList = IF neg.fault THEN labelList ELSE neg.newLabelList],
         fault |-> neg.fault]

\* the positive examples, each [start, end], of which no instance holds a
\* vertex; an instance lies in one example, so its first vertex is looked at
ExampleRange(parameters, posEg) ==
    [start |-> parameters.posEgsVertexIndices[posEg],
     end |-> IF posEg < parameters.numPosEgs
             THEN parameters.posEgsVertexIndices[posEg + 1] - 1
             ELSE NumVertices(parameters.posGraph)]

ExampleCovered(parameters, instanceList, posEg) ==
    \E a \in 1..Len(instanceList) :
        /\ instanceList[a].vertices[1] >= ExampleRange(parameters, posEg).start
        /\ instanceList[a].vertices[1] <= ExampleRange(parameters, posEg).end

\* MarkExample(start, end, graph, TRUE)
MarkExample(range, graph, flags) ==
    [flags EXCEPT
       !.vertexUsed = [v \in DOMAIN @ |-> @[v] \/ (range.start <= v /\ v <= range.end)],
       !.edgeUsed = [e \in DOMAIN @ |->
                       \/ @[e]
                       \/ \E v \in range.start..range.end :
                             \E i \in 1..Len(graph.vertices[v].edges) :
                                graph.vertices[v].edges[i] = e]]

\* the loop over the examples from posEg on:
\* st = [flags, newNumVertices, newPosEgsVertexIndices]
RECURSIVE CoverExamples(_, _, _, _)
CoverExamples(parameters, instanceList, posEg, st) ==
    IF posEg > parameters.numPosEgs THEN st
    ELSE LET range == ExampleRange(parameters, posEg)
         IN  CoverExamples(parameters, instanceList, posEg + 1,
                IF ExampleCovered(parameters, instanceList, posEg)
                THEN [st EXCEPT !.flags = MarkExample(range, parameters.posGraph, @)]
                ELSE [st EXCEPT
                        !.newPosEgsVertexIndices = Append(@, st.newNumVertices + 1),
                        !.newNumVertices = @ + (range.end - range.start + 1)])

RemovePosEgsCovered(sub, parameters, unset) ==
    LET covered == CoverExamples(parameters, sub.instances, 1,
                      [flags |-> ClearedFlags(parameters.posGraph),
                       newNumVertices |-> 0, newPosEgsVertexIndices |-> <<>>])
        newPosGraph == CopyUnmarkedGraph(parameters.posGraph,
                          [g2 |-> AllocateGraph, flags |-> covered.flags]).g2
        pos == CompressLabelListWithGraph(<<>>, newPosGraph,
                                          parameters.labelList, unset)
        neg == IF IsNull(parameters.negGraph) \/ pos.fault
               THEN [pos EXCEPT !.graph = parameters.negGraph]
               ELSE CompressLabelListWithGraph(pos.newLabelList,
                       parameters.negGraph, parameters.labelList, unset)
    IN  [parameters |->
            IF neg.fault THEN parameters
            ELSE [parameters EXCEPT
                    !.posGraph = pos.graph,
                    !.negGraph = neg.graph,
                    !.labelList = neg.newLabelList,
                    !.posEgsVertexIndices = covered.newPosEgsVertexIndices,
                    !.numPosEgs = Len(covered.newPosEgsVertexIndices)],
         fault |-> neg.fault]

----------------------------------------------------------------------------
(* main.c: the iterations of a run.  DiscoverSubs is taken for what it can *)
(* return: no substructure, or a best substructure whose instances are     *)
(* connected parts of the graphs.                                          *)

IterHosts == {PathHost, ExamplesHost, StarHost}

IterInputs ==
    {[iterations |-> n, evalMethod |-> m, allowInstanceOverlap |-> o,
      labelList |-> h.labelList,
      posGraph |-> h.pos.graph, numPosEgs |-> h.pos.numEgs,
      posEgsVertexIndices |-> h.pos.egsVertexIndices,
      negGraph |-> IF h.neg.numEgs = 0 THEN NULL ELSE h.neg.graph] :
        h \in IterHosts, n \in 1..MaxIterations,
        m \in {EVAL_MDL, EVAL_SIZE, EVAL_SETCOVER}, o \in BOOLEAN}

\* the instance lists of a best substructure, each instance starting no
\* earlier in the graph than the one before it
BestInstances(graph, allowInstanceOverlap) ==
    {l \in CandidateLists(graph, allowInstanceOverlap) :
        \A a \in 1..(Len(l) - 1) : l[a].vertices[1] <= l[a + 1].vertices[1]}

\* the substructures DiscoverSubs can put at the head of its list
BestSubs(parameters) ==
    {[instances |-> l, negInstances |-> n] :
        l \in BestInstances(parameters.posGraph, parameters.allowInstanceOverlap),
        n \in {<<>>} \cup
              (IF IsNull(parameters.negGraph) THEN {}
               ELSE BestInstances(parameters.negGraph,
                                  parameters.allowInstanceOverlap))}

IterInit ==
    /\ iParameters \in IterInputs
    /\ iteration = 1
    /\ done = FALSE
    /\ iLog = [pc |-> "loop", discoveries |-> 0, stopped |-> 0]
    /\ MatcherUnused
    /\ SubListUnused
    /\ DiscoverUnused
    /\ FinderUnused
    /\ CompressUnused
    /\ RefUnused
    /\ EvalUnused
    /\ ParentUnused
    /\ QueueUnused

\* a condition that waits for the vertices to be gone
StoppingConditionOnVertices(parameters) ==
    IF parameters.evalMethod = EVAL_SETCOVER
    THEN parameters.numPosEgs = 0
    ELSE NumVertices(parameters.posGraph) = 0

\* the stopping condition after the graphs were compressed
StoppingCondition(parameters) ==
    IF parameters.evalMethod = EVAL_SETCOVER
    THEN parameters.numPosEgs = 0
    ELSE NumEdges(parameters.posGraph) = 0

\* a turn of the loop in which DiscoverSubs finds nothing
IterateFindingNothing ==
    /\ iLog.pc = "loop"
    /\ iteration <= iParameters.iterations
    /\ ~done
    /\ done' = TRUE
    /\ iteration' = iteration + 1
    /\ iLog' = [iLog EXCEPT !.discoveries = @ + 1]
    /\ UNCHANGED <<iParameters, matcherVars, subListVars, discoverVars, finderVars, compressVars, refVars, evalVars, parentVars, queueVars>>

\* the last turn of the loop: the best substructure is only written out
IterateLast ==
    /\ iLog.pc = "loop"
    /\ iteration = iParameters.iterations
    /\ ~done
    /\ BestSubs(iParameters) # {}
    /\ iteration' = iteration + 1
    /\ iLog' = [iLog EXCEPT !.discoveries = @ + 1]
    /\ UNCHANGED <<iParameters, done, matcherVars, subListVars, discoverVars, finderVars, compressVars, refVars, evalVars, parentVars, queueVars>>

Compressed(sub, parameters, k, unset) ==
    IF parameters.evalMethod = EVAL_SETCOVER
    THEN RemovePosEgsCovered(sub, parameters, unset)
    ELSE CompressFinalGraphs(sub, parameters, k, unset)

\* a turn of the loop with another iteration to come: the graphs are
\* compressed with the best substructure; what a read past the stored
\* labels yields is chosen only where there is such a read
IterateCompressing ==
    /\ iLog.pc = "loop"
    /\ iteration < iParameters.iterations
    /\ ~done
    /\ \E sub \in BestSubs(iParameters) :
       \E unset \in IF Compressed(sub, iParameters, iteration, FaultingRead).fault
                     THEN UnsetLabels ELSE {FaultingRead} :
          LET left == Compressed(sub, iParameters, iteration, unset)
          IN  /\ iParameters' = left.parameters
              /\ IF left.fault
                 THEN /\ iLog' = [iLog EXCEPT !.pc = "fault", !.discoveries = @ + 1]
                      /\ UNCHANGED <<iteration, done>>
                 ELSE /\ done' = StoppingCondition(left.parameters)
                      /\ iteration' = iteration + 1
                      /\ iLog' = [iLog EXCEPT
                                    !.discoveries = @ + 1,
                                    !.stopped =
                                       IF \/ /\ iParameters.evalMethod = EVAL_SETCOVER
                                             /\ left.parameters.numPosEgs = 0
                                          \/ /\ iParameters.evalMethod # EVAL_SETCOVER
                                             /\ NumEdges(left.parameters.posGraph) = 0
                                       THEN iLog.discoveries + 1 ELSE @]
    /\ UNCHANGED <<matcherVars, subListVars, discoverVars, finderVars, compressVars, refVars, evalVars, parentVars, queueVars>>

\* the loop is left
LeaveLoop ==
    /\ iLog.pc = "loop"
    /\ iteration > iParameters.iterations \/ done
    /\ iLog' = [iLog EXCEPT !.pc = "exit"]
    /\ UNCHANGED <<iParameters, iteration, done, matcherVars, subListVars, discoverVars, finderVars, compressVars, refVars, evalVars, parentVars, queueVars>>

IterNext ==
    IterateFindingNothing \/ IterateLast \/ IterateCompressing \/ LeaveLoop

IterSpec == IterInit /\ [][IterNext]_vars

LabelsOf(graph) ==
    IF IsNull(graph) THEN {}
    ELSE {graph.vertices[v].label : v \in 1..NumVertices(graph)}
         \cup {graph.edges[e].label : e \in 1..NumEdges(graph)}

\* C15: when an iteration has compressed the graphs, the label list has
\* been rebuilt (the compression ran to its end) and every label index held
\* by a vertex or an edge of the positive or the negative graph is an index
\* of the label list, whatever labels the input graphs use.
C15_LabelIndicesWithinLabelList ==
    iLog.discoveries > 0 =>
        /\ iLog.pc # "fault"
        /\ \A index \in LabelsOf(iParameters.posGraph)
                        \cup LabelsOf(iParameters.negGraph) :
              index \in 1..Len(iParameters.labelList)

\* C20: once an iteration has left no positive example (set cover) or a
\* positive graph without edges (size, MDL), DiscoverSubs is not called
\* again: the iteration that left them is the last one.
C20_NoIterationAfterNothingLeft ==
    iLog.stopped # 0 => iLog.discoveries = iLog.stopped

\* the loop was left with iterations still to come, after a compression
\* that left nothing
C20_Witness ==
    /\ iLog.pc = "exit"
    /\ iLog.stopped # 0
    /\ iteration <= iParameters.iterations
    /\ done

----------------------------------------------------------------------------
(* subops.c: instances and the instance lists that share them.  The heap   *)
(* is an array of instances, an instance list the sequence of the heap     *)
(* positions its nodes point to, head first.                               *)

RefContents ==
    {[vertices |-> <<1>>, edges |-> <<>>], [vertices |-> <<2>>, edges |-> <<>>]}

\* AllocateInstance with its arrays filled in
NewInstance(content) ==
    [vertices |-> content.vertices, edges |-> content.edges,
     refCount |-> 0, freed |-> FALSE]

\* a FreeInstance that does not look at the reference count
FreeInstanceAlways(heap, instance) ==
    [heap EXCEPT ![instance].freed = TRUE]

FreeInstance(heap, instance) ==
    IF heap[instance].refCount = 0
    THEN [heap EXCEPT ![instance].freed = TRUE]
    ELSE heap

\* the heap after AllocateInstanceListNode(instance)
AllocateInstanceListNode(heap, instance) ==
    [heap EXCEPT ![instance].refCount = @ + 1]

\* the heap after FreeInstanceListNode of a node that points to instance
FreeInstanceListNode(heap, instance) ==
    FreeInstance([heap EXCEPT ![instance].refCount = @ - 1], instance)

\* FreeInstanceList from node i on
RECURSIVE FreeInstanceListFrom(_, _, _)
FreeInstanceListFrom(heap, instanceList, i) ==
    IF i > Len(instanceList) THEN heap
    ELSE FreeInstanceListFrom(FreeInstanceListNode(heap, instanceList[i]),
                              instanceList, i + 1)

\* the instances the nodes of a list point to
Pointees(heap, instanceList) ==
    [i \in 1..Len(instanceList) |-> heap[instanceList[i]]]

\* InstanceListInsert on the heap: [heap, instanceList]
InstanceListInsertShared(heap, instance, instanceList, unique) ==
    IF ~unique
       \/ ~MemberOfInstanceList(heap[instance], Pointees(heap, instanceList))
    THEN [heap |-> AllocateInstanceListNode(heap, instance),
          instanceList |-> <<instance>> \o instanceList]
    ELSE [heap |-> FreeInstance(heap, instance),
          instanceList |-> instanceList]

RefInit ==
    /\ rHeap = <<>>
    /\ rLists = [l \in 1..NumInstanceLists |-> <<>>]
    /\ MatcherUnused
    /\ SubListUnused
    /\ DiscoverUnused
    /\ FinderUnused
    /\ CompressUnused
    /\ IterUnused
    /\ EvalUnused
    /\ ParentUnused
    /\ QueueUnused

\* an instance is allocated and inserted into a list
InsertNewInstance ==
    /\ rLists # <<>>
    /\ Len(rHeap) < MaxHeapInstances
    /\ \E content \in RefContents, l \in 1..NumInstanceLists, unique \in BOOLEAN :
          /\ Len(rLists[l]) < MaxListLength
          /\ LET inserted == InstanceListInsertShared(Append(rHeap, NewInstance(content)),
                                                Len(rHeap) + 1, rLists[l], unique)
             IN  /\ rHeap' = inserted.heap
                 /\ rLists' = [rLists EXCEPT ![l] = inserted.instanceList]
    /\ UNCHANGED <<matcherVars, subListVars, discoverVars, finderVars, compressVars, iterVars, evalVars, parentVars, queueVars>>

\* an instance of one list is inserted into a list: the new instances of
\* ExtendSub into the substructures, the instances left alone into the
\* list of recursive instances
InsertListedInstance ==
    /\ rLists # <<>>
    /\ \E k \in 1..NumInstanceLists, l \in 1..NumInstanceLists, unique \in BOOLEAN :
          /\ Len(rLists[l]) < MaxListLength
          /\ \E i \in 1..Len(rLists[k]) :
                LET inserted == InstanceListInsertShared(rHeap, rLists[k][i],
                                                   rLists[l], unique)
                IN  /\ rHeap' = inserted.heap
                    /\ rLists' = [rLists EXCEPT ![l] = inserted.instanceList]
    /\ UNCHANGED <<matcherVars, subListVars, discoverVars, finderVars, compressVars, iterVars, evalVars, parentVars, queueVars>>

\* FreeInstanceList, and AllocateInstanceList for the list that takes its
\* place
FreeList ==
    /\ rLists # <<>>
    /\ \E l \in 1..NumInstanceLists :
          /\ rLists[l] # <<>>
          /\ rHeap' = FreeInstanceListFrom(rHeap, rLists[l], 1)
          /\ rLists' = [rLists EXCEPT ![l] = <<>>]
    /\ UNCHANGED <<matcherVars, subListVars, discoverVars, finderVars, compressVars, iterVars, evalVars, parentVars, queueVars>>

RefNext == InsertNewInstance \/ InsertListedInstance \/ FreeList

RefSpec == RefInit /\ [][RefNext]_vars

\* the nodes of the lists that point to the instance
NodesOf(lists, instance) ==
    UNION {{<<l, i>> : i \in {j \in 1..Len(lists[l]) : lists[l][j] = instance}} :
           l \in 1..Len(lists)}

\* C17: after every step, the reference count of every instance that has
\* not been freed is the number of instance list nodes that point to it,
\* and no node points to a freed instance; an instance on a list is freed
\* in the step that removes the last node pointing to it, and in no other.
C17_RefCountCountsListNodes ==
    [][/\ \A instance \in 1..Len(rHeap') :
             /\ ~rHeap'[instance].freed
                   => rHeap'[instance].refCount
                         = Cardinality(NodesOf(rLists', instance))
             /\ rHeap'[instance].freed => NodesOf(rLists', instance) = {}
       /\ \A instance \in 1..Len(rHeap) :
             NodesOf(rLists, instance) # {}
                => (rHeap'[instance].freed <=> NodesOf(rLists', instance) = {})
      ]_vars

\* one instance is on both lists and counts two references, another has
\* been freed
C17_Witness ==
    \E instance \in 1..Len(rHeap), other \in 1..Len(rHeap) :
        /\ ~rHeap[instance].freed
        /\ rHeap[instance].refCount = 2
        /\ \E i \in 1..Len(rLists[1]) : rLists[1][i] = instance
        /\ \E i \in 1..Len(rLists[2]) : rLists[2][i] = instance
        /\ rHeap[other].freed
        /\ rHeap[other].refCount = 0

----------------------------------------------------------------------------
(* What FindInstances is to return at threshold 0 with overlap allowed.    *)

\* the subgraphs of the graph with nv vertices and ne edges: a set of
\* vertices and a set of edges between them, as an instance holds them
SubgraphsOf(graph, nv, ne) ==
    {[vertices |-> SortedSeq(V), edges |-> SortedSeq(E)] :
        <<V, E>> \in {x \in (SUBSET (1..NumVertices(graph)))
                              \X (SUBSET (1..NumEdges(graph))) :
                        /\ Cardinality(x[1]) = nv
                        /\ Cardinality(x[2]) = ne
                        /\ EdgeEnds(graph, x[2]) \subseteq x[1]}}

Occurrences(g1, g2) ==
    {s \in SubgraphsOf(g2, NumVertices(g1), NumEdges(g1)) :
        Isomorphic(g1, InstanceToGraph(s, g2))}

\* every vertex of the graph is reached from its first vertex
IsConnected(graph) ==
    LET Step(R) == R \cup EdgeEnds(graph, {e \in 1..NumEdges(graph) :
                                              EdgeEnds(graph, {e}) \cap R # {}})
        Closure[k \in 0..NumVertices(graph)] ==
            IF k = 0 THEN {1} ELSE Step(Closure[k - 1])
    IN  Closure[NumVertices(graph)] = 1..NumVertices(graph)

SubgraphOfInstance(instance) ==
    [vertices |-> SortedSeq(InstanceVertices(instance)),
     edges |-> SortedSeq(InstanceEdges(instance))]

\* C19: with overlap allowed and threshold 0, the list FindInstances
\* returns holds exactly the subgraphs of the host (a vertex set and an
\* edge set) that are isomorphic to the pattern, each of them once; it is
\* empty when there is none.
C19_ReturnsEachOccurrenceOnce ==
    (/\ fSearch.phase = "returned"
     /\ fInput.allowInstanceOverlap
     /\ fInput.threshold = <<0, 1>>)
        => /\ {SubgraphOfInstance(fInstanceList[i]) : i \in 1..Len(fInstanceList)}
                 = Occurrences(fInput.g1, fInput.g2)
           /\ \A i, j \in 1..Len(fInstanceList) :
                 i # j => SubgraphOfInstance(fInstanceList[i])
                             # SubgraphOfInstance(fInstanceList[j])

\* the same for the patterns FindInstances walks through completely
FinderExactOnConnectedPatterns ==
    IsConnected(fInput.g1) => C19_ReturnsEachOccurrenceOnce

----------------------------------------------------------------------------
(* evaluate.c: EvaluateSub with everything it writes.  A description       *)
(* length is kept as the numbers its formula is computed from; the used    *)
(* flags of the graphs it works on are threaded through.                   *)

\* the counting loop of NumUniqueEdges from position e of the edge array of
\* v1 on: st = [numUniqueEdges, vertexUsed]
RECURSIVE UniqueEdgesFrom(_, _, _, _)
UniqueEdgesFrom(graph, v1, e, st) ==
    IF e > Len(graph.vertices[v1].edges) THEN st
    ELSE LET edge == graph.edges[graph.vertices[v1].edges[e]]
             v2 == IF edge.vertex1 = v1 THEN edge.vertex2 ELSE edge.vertex1
         IN  UniqueEdgesFrom(graph, v1, e + 1,
                \* check if edge connected to unique vertex
                IF /\ \/ edge.directed /\ edge.vertex1 = v1
                      \/ ~edge.directed /\ v2 >= v1
                   /\ ~st.vertexUsed[v2]
                THEN [numUniqueEdges |-> st.numUniqueEdges + 1,
                      vertexUsed |-> [st.vertexUsed EXCEPT ![v2] = TRUE]]
                ELSE st)

\* [numUniqueEdges, vertexUsed]
NumUniqueEdges(graph, vertexUsed, v1) ==
    LET counted == UniqueEdgesFrom(graph, v1, 1,
                      [numUniqueEdges |-> 0, vertexUsed |-> vertexUsed])
        ends == UNION {{graph.edges[graph.vertices[v1].edges[e]].vertex1,
                        graph.edges[graph.vertices[v1].edges[e]].vertex2} :
                          e \in 1..Len(graph.vertices[v1].edges)}
    IN  [numUniqueEdges |-> counted.numUniqueEdges,
         \* reset vertex used flags
         vertexUsed |-> [v \in DOMAIN counted.vertexUsed |->
                            IF v \in ends THEN FALSE ELSE counted.vertexUsed[v]]]

MaxEdgesToSingleVertex(graph, v1) ==
    LET numEdges == Len(graph.vertices[v1].edges)
        Edge(i) == graph.edges[graph.vertices[v1].edges[i]]
        Other(i) == IF Edge(i).vertex1 = v1 THEN Edge(i).vertex2
                    ELSE Edge(i).vertex1
        NumEdgesToVertex2(i) ==
            1 + Cardinality({j \in (i + 1)..numEdges :
                    /\ Other(j) = Other(i)
                    /\ \/ Edge(j).directed /\ Edge(j).vertex1 = v1
                       \/ ~Edge(i).directed /\ Other(j) >= v1})
    IN  Max({0} \cup {NumEdgesToVertex2(i) :
                        i \in {j \in 1..numEdges :
                                 \/ Edge(j).directed /\ Edge(j).vertex1 = v1
                                 \/ ~Edge(j).directed /\ Other(j) >= v1}})

\* the loop of MDL over the vertices from v1 on: st = [k, M, vertexUsed], k
\* the row counts so far
RECURSIVE MDLRows(_, _, _)
MDLRows(graph, v1, st) ==
    IF v1 > NumVertices(graph) THEN st
    ELSE LET ki == NumUniqueEdges(graph, st.vertexUsed, v1)
             tmpM == MaxEdgesToSingleVertex(graph, v1)
         IN  MDLRows(graph, v1 + 1,
                [k |-> Append(st.k, ki.numUniqueEdges),
                 M |-> IF tmpM > st.M THEN tmpM ELSE st.M,
                 vertexUsed |-> ki.vertexUsed])

\* [bits, vertexUsed]: the bits are a function of V, E, L, the row counts
\* k in the order of the vertices, and M
MDL(graph, vertexUsed, numLabels) ==
    LET rows == MDLRows(graph, 1, [k |-> <<>>, M |-> 0, vertexUsed |-> vertexUsed])
    IN  [bits |-> [V |-> NumVertices(graph), E |-> NumEdges(graph),
                   L |-> numLabels, k |-> rows.k, M |-> rows.M],
         vertexUsed |-> rows.vertexUsed]

\* the bits are lg(subVertices) times the number counted
ExternalEdgeBits(compressedGraph, subGraph, numInstances) ==
    [subVertices |-> NumVertices(subGraph),
     times |-> SumOver(1..numInstances,
                  [v \in 1..numInstances |->
                     SumOver(1..Len(compressedGraph.vertices[v].edges),
                        [e \in 1..Len(compressedGraph.vertices[v].edges) |->
                           LET edge == compressedGraph.edges[
                                          compressedGraph.vertices[v].edges[e]]
                           IN  IF edge.vertex1 = edge.vertex2 THEN 2 ELSE 1])])]

\* CopyGraph and the recursive edge added as a directed self edge
ScoredDefinition(sub) ==
    IF sub.recursive
    THEN AddEdge(sub.definition, 1, 1, TRUE, sub.recursiveEdgeLabel)
    ELSE sub.definition

\* a return that leaves the definition as it was scored
KeptDefinition(oldDefinition, definition) == definition

\* if recursive sub, then restore old definition
RestoredDefinition(oldDefinition, definition) == oldDefinition

\* EvaluateSub with the flags it works on: flags = [definition, pos, neg],
\* the used flags of the vertices of the definition and the flags of the
\* two graphs.  The result is [sub, flags].
EvaluateSubCall(sub, parameters, flags) ==
    LET posGraph == parameters.posGraph
        negGraph == parameters.negGraph
        allowInstanceOverlap == parameters.allowInstanceOverlap
        numExamples == ExamplesCovered(sub.instances, posGraph,
                          parameters.numPosEgs, parameters.posEgsVertexIndices)
        numNegExamples ==
            IF ~IsNull(negGraph)
            THEN ExamplesCovered(sub.negInstances, negGraph,
                    parameters.numNegEgs, parameters.negEgsVertexIndices)
            ELSE 0
        oldDefinition == sub.definition
        definition == ScoredDefinition(sub)
        \* EVAL_MDL
        numLabels == Len(parameters.labelList)
        sizeOfSub == MDL(definition, flags.definition, numLabels)
        compressedPos == CompressGraph(posGraph, flags.pos, sub.instances,
                            numLabels, allowInstanceOverlap)
        numLabelsCompressed ==
            numLabels + 1
            + (IF allowInstanceOverlap
                  /\ (InstancesOverlap(sub.instances)
                      \/ InstancesOverlap(sub.negInstances))
               THEN 1 ELSE 0)
        DescribedBy(compressed, numInstances) ==
            [bits |-> MDL(compressed.compressedGraph,
                          [v \in 1..NumVertices(compressed.compressedGraph) |-> FALSE],
                          numLabelsCompressed).bits,
             externalEdgeBits |-> ExternalEdgeBits(compressed.compressedGraph,
                                                   definition, numInstances)]
        compressedNeg == CompressGraph(negGraph, flags.neg, sub.negInstances,
                            numLabels, allowInstanceOverlap)
        mdl ==
            IF IsNull(negGraph)
            THEN [subValue |->
                     <<[sizeOfPosGraph |-> parameters.posGraphDL],
                       [sizeOfSub |-> sizeOfSub.bits,
                        sizeOfCompressedPosGraph |->
                           DescribedBy(compressedPos, sub.numInstances)]>>,
                  pos |-> compressedPos.flags, neg |-> flags.neg]
            ELSE [subValue |->
                     <<[sizeOfPosGraph |-> parameters.posGraphDL,
                        sizeOfNegGraph |-> parameters.negGraphDL],
                       [sizeOfSub |-> sizeOfSub.bits,
                        sizeOfCompressedPosGraph |->
                           DescribedBy(compressedPos, sub.numInstances),
                        sizeOfNegGraph |-> parameters.negGraphDL,
                        sizeOfCompressedNegGraph |->
                           DescribedBy(compressedNeg, sub.numNegInstances)]>>,
                  pos |-> compressedPos.flags, neg |-> compressedNeg.flags]
        \* EVAL_SIZE
        sizedPos == SizeOfCompressedGraphCall(posGraph, flags.pos,
                       sub.instances, allowInstanceOverlap)
        sizedNeg == SizeOfCompressedGraphCall(negGraph, flags.neg,
                       sub.negInstances, allowInstanceOverlap)
        size ==
            IF IsNull(negGraph)
            THEN [subValue |-> <<GraphSize(posGraph),
                                 GraphSize(definition) + sizedPos.size>>,
                  pos |-> sizedPos.flags, neg |-> flags.neg]
            ELSE [subValue |-> <<GraphSize(posGraph) + GraphSize(negGraph),
                                 GraphSize(definition) + sizedPos.size
                                 + GraphSize(negGraph) - sizedNeg.size>>,
                  pos |-> sizedPos.flags, neg |-> sizedNeg.flags]
        \* EVAL_SETCOVER
        setCover ==
            [subValue |-> <<numExamples + (parameters.numNegEgs - numNegExamples),
                            parameters.numPosEgs + parameters.numNegEgs>>,
             pos |-> flags.pos, neg |-> flags.neg]
        scored == IF parameters.evalMethod = EVAL_MDL THEN mdl
                  ELSE IF parameters.evalMethod = EVAL_SIZE THEN size
                  ELSE setCover
    IN  [sub |-> [sub EXCEPT !.numExamples = numExamples,
                             !.numNegExamples = numNegExamples,
                             !.value = scored.subValue,
                             !.definition =
                                 IF sub.recursive
                                 THEN RestoredDefinition(oldDefinition, definition)
                                 ELSE definition],
         flags |-> [definition |->
                       \* the flags MDL works on are those of the copy when
                       \* the substructure is recursive
                       IF parameters.evalMethod = EVAL_MDL /\ ~sub.recursive
                       THEN sizeOfSub.vertexUsed
                       ELSE flags.definition,
                    pos |-> scored.pos, neg |-> scored.neg]]

----------------------------------------------------------------------------
(* A substructure of the search evaluated twice in succession.             *)

EvalHosts == {CycleHost, ParallelHost, ExamplesHost, StarHost}

EvalParameters ==
    {[evalMethod |-> m, allowInstanceOverlap |-> o,
      labelList |-> h.labelList,
      posGraph |-> h.pos.graph, numPosEgs |-> h.pos.numEgs,
      posEgsVertexIndices |-> h.pos.egsVertexIndices,
      negGraph |-> IF h.neg.numEgs = 0 THEN NULL ELSE h.neg.graph,
      numNegEgs |-> h.neg.numEgs,
      negEgsVertexIndices |-> h.neg.egsVertexIndices,
      \* cached at beginning
      posGraphDL |-> MDL(h.pos.graph,
                         [v \in 1..NumVertices(h.pos.graph) |-> FALSE],
                         Len(h.labelList)).bits,
      negGraphDL |-> MDL(h.neg.graph,
                         [v \in 1..NumVertices(h.neg.graph) |-> FALSE],
                         Len(h.labelList)).bits] :
        h \in EvalHosts, m \in {EVAL_MDL, EVAL_SIZE, EVAL_SETCOVER},
        o \in BOOLEAN}

\* the substructures of the instance lists the graphs can hold: the
\* definition is the graph of the first instance, a recursive substructure
\* has the label of one of its edges as recursive edge label
EvalSubs(parameters) ==
    {[definition |-> InstanceToGraph(s.instances[1], parameters.posGraph),
      instances |-> s.instances, numInstances |-> Len(s.instances),
      negInstances |-> s.negInstances, numNegInstances |-> Len(s.negInstances),
      value |-> <<-1, 1>>, numExamples |-> 0, numNegExamples |-> 0,
      recursive |-> r # 0, recursiveEdgeLabel |-> r] :
        s \in BestSubs(parameters),
        r \in {0} \cup {parameters.posGraph.edges[e].label :
                          e \in 1..NumEdges(parameters.posGraph)}}

EvalInit ==
    /\ eParameters \in EvalParameters
    /\ eSub \in EvalSubs(eParameters)
    /\ eFlags = [definition |-> [v \in 1..NumVertices(eSub.definition) |-> FALSE],
                 pos |-> ClearedFlags(eParameters.posGraph),
                 neg |-> IF IsNull(eParameters.negGraph) THEN ClearedFlags(AllocateGraph)
                         ELSE ClearedFlags(eParameters.negGraph)]
    /\ eLog = [before |-> eSub, values |-> <<>>]
    /\ MatcherUnused
    /\ SubListUnused
    /\ DiscoverUnused
    /\ FinderUnused
    /\ CompressUnused
    /\ IterUnused
    /\ RefUnused
    /\ ParentUnused
    /\ QueueUnused

\* EvaluateSub is called on the substructure
EvaluateSubAgain ==
    /\ eParameters # <<>>
    /\ Len(eLog.values) < MaxEvaluations
    /\ LET evaluated == EvaluateSubCall(eSub, eParameters, eFlags)
       IN  /\ eSub' = evaluated.sub
           /\ eFlags' = evaluated.flags
           /\ eLog' = [eLog EXCEPT !.values = Append(@, evaluated.sub.value)]
    /\ UNCHANGED <<eParameters, matcherVars, subListVars, discoverVars, finderVars, compressVars, iterVars, refVars, parentVars, queueVars>>

EvalNext == EvaluateSubAgain

EvalSpec == EvalInit /\ [][EvalNext]_vars

\* C18: every evaluation of the substructure after the first yields the
\* value of the first, and after each evaluation the definition (that of a
\* recursive substructure too) and the two instance lists are those the
\* substructure had before its first evaluation.  The vertices, edges and
\* labels of the positive and the negative graph are not among the things
\* EvaluateSub writes: of the graphs it writes the used flags and the map
\* fields only.
C18_EvaluationRepeats ==
    Len(eLog.values) >= 1
        => /\ \A i \in 1..Len(eLog.values) : eLog.values[i] = eLog.values[1]
           /\ eSub.value = eLog.values[1]
           /\ eSub.definition = eLog.before.definition
           /\ eSub.instances = eLog.before.instances
           /\ eSub.negInstances = eLog.before.negInstances

\* a recursive substructure with overlapping instances has been evaluated
\* twice under MDL
C18_Witness ==
    /\ Len(eLog.values) = 2
    /\ eParameters.evalMethod = EVAL_MDL
    /\ eParameters.allowInstanceOverlap
    /\ eSub.recursive
    /\ InstancesOverlap(eSub.instances)
    /\ NumEdges(eSub.definition) >= 1

----------------------------------------------------------------------------
(* GetInitialSubs on its own: the positive graph is drawn from the graphs  *)
(* of up to MaxInitialVertices vertices, its edges, if any, a path.        *)

InitialLabels == 1..(NumVertexLabels + 1)

InitialGraphs ==
    UNION {{ReadGraph(l, es) :
              l \in [1..n -> InitialLabels],
              es \in {<<>>, [e \in 1..(n - 1) |->
                               DiscoverEdge(e, e + 1, NumVertexLabels + 2, FALSE)]}} :
           n \in 0..MaxInitialVertices}

InitialInputs ==
    {[threshold |-> <<0, 1>>, allowInstanceOverlap |-> FALSE, evalMethod |-> m,
      limit |-> 1, beamWidth |-> 1, valueBased |-> FALSE, prune |-> FALSE,
      numBestSubs |-> 1, minVertices |-> 1, maxVertices |-> MaxInitialVertices,
      labelList |-> <<DiscoverLabel(<<"a">>), DiscoverLabel(<<"b">>),
                      DiscoverLabel(<<"c">>), DiscoverLabel(<<"e">>)>>,
      posGraph |-> g, numPosEgs |-> 1, posEgsVertexIndices |-> <<1>>,
      negGraph |-> n.graph, numNegEgs |-> n.numEgs,
      negEgsVertexIndices |-> n.egsVertexIndices] :
        g \in InitialGraphs, m \in {EVAL_SIZE, EVAL_SETCOVER},
        n \in {NoExamples, ExamplesHost.neg}}

InitialInit ==
    /\ dParameters \in InitialInputs
    /\ dLimit = dParameters.limit
    /\ dParentSubList = <<>>
    /\ dChildSubList = <<>>
    /\ dDiscoveredSubList = <<>>
    /\ dExtendedSubList = <<>>
    /\ dExtended = 0
    /\ dPhase = "initial"
    /\ MatcherUnused
    /\ SubListUnused
    /\ FinderUnused
    /\ CompressUnused
    /\ IterUnused
    /\ RefUnused
    /\ EvalUnused
    /\ ParentUnused
    /\ QueueUnused

\* DiscoverSubs gets the initial one-vertex substructures
CallGetInitialSubs ==
    /\ dPhase = "initial"
    /\ dParentSubList' = GetInitialSubs(dParameters)
    /\ dPhase' = "listed"
    /\ UNCHANGED <<dParameters, dLimit, dChildSubList, dDiscoveredSubList,
                   dExtendedSubList, dExtended,
                   matcherVars, subListVars, finderVars, compressVars, iterVars, refVars, evalVars, parentVars, queueVars>>

InitialNext == CallGetInitialSubs

InitialSpec == InitialInit /\ [][InitialNext]_vars

\* the vertices of the graph that carry the label
VerticesLabelled(graph, label) ==
    {v \in 1..NumVertices(graph) : graph.vertices[v].label = label}

\* the places of the list whose substructure is the one vertex of the label
InitialSubsOf(subList, label) ==
    {i \in 1..Len(subList) :
        /\ NumVertices(subList[i].definition) = 1
        /\ NumEdges(subList[i].definition) = 0
        /\ subList[i].definition.vertices[1].label = label}

\* C21: the list GetInitialSubs returns holds, for each vertex label that
\* occurs at least twice in the positive graph, exactly one substructure
\* whose definition is one vertex of that label, its positive instances
\* being the vertices of the positive graph that carry the label, each
\* once; it holds nothing for a label that occurs once or not at all, and
\* nothing else.
C21_OneInitialSubPerRepeatedLabel ==
    dPhase = "listed"
        => /\ \A label \in InitialLabels :
                 IF Cardinality(VerticesLabelled(dParameters.posGraph, label)) >= 2
                 THEN /\ Cardinality(InitialSubsOf(dParentSubList, label)) = 1
                      /\ \A i \in InitialSubsOf(dParentSubList, label) :
                            LET sub == dParentSubList[i]
                            IN  /\ sub.numInstances = Len(sub.instances)
                                /\ sub.numInstances
                                      = Cardinality(VerticesLabelled(
                                                       dParameters.posGraph, label))
                                /\ \A a \in 1..Len(sub.instances) :
                                      /\ Len(sub.instances[a].vertices) = 1
                                      /\ Len(sub.instances[a].edges) = 0
                                /\ {sub.instances[a].vertices[1] :
                                       a \in 1..Len(sub.instances)}
                                      = VerticesLabelled(dParameters.posGraph, label)
                 ELSE InitialSubsOf(dParentSubList, label) = {}
           /\ \A i \in 1..Len(dParentSubList) :
                 \E label \in InitialLabels : i \in InitialSubsOf(dParentSubList, label)

\* a graph with a label that occurs once, between two vertices of a label
\* that occurs twice, and a third label that occurs twice
C21_Witness ==
    /\ dPhase = "listed"
    /\ Len(dParentSubList) = 2
    /\ \E label \in InitialLabels :
          /\ Cardinality(VerticesLabelled(dParameters.posGraph, label)) = 1
          /\ \E v \in VerticesLabelled(dParameters.posGraph, label) :
                1 < v /\ v < NumVertices(dParameters.posGraph)

----------------------------------------------------------------------------
(* DiscoverSubs on two disjoint paths A - B - C, as the command line sets  *)
(* the parameters up: -beam and -eval given, -limit given or left out.     *)

PathLabelList ==
    <<DiscoverLabel(<<"A">>), DiscoverLabel(<<"B">>), DiscoverLabel(<<"C">>),
      DiscoverLabel(<<"e">>)>>

PathLength == Len(PathLabelList) - 1

\* the orders in which the vertices of one path can stand in the file
PathOrders ==
    {l \in [1..PathLength -> 1..PathLength] :
        \A i, j \in 1..PathLength : i # j => l[i] # l[j]}

\* the vertex of the path starting after vertex `base` that carries the label
PathVertex(order, base, label) ==
    base + (CHOOSE i \in 1..PathLength : order[i] = label)

PathEdges(order, base, directed) ==
    [e \in 1..(PathLength - 1) |->
        DiscoverEdge(PathVertex(order, base, e), PathVertex(order, base, e + 1),
                     Len(PathLabelList), directed)]

DisjointPaths(order1, order2, directed) ==
    ReadGraph(order1 \o order2,
              PathEdges(order1, 0, directed)
              \o PathEdges(order2, PathLength, directed))

\* the parameters GetParameters leaves when only -beam, -eval and -limit
\* can be given; limit 0 is a limit that was not given
GetParameters(posGraph, beamWidth, evalMethod, limit) ==
    [threshold |-> <<0, 1>>, allowInstanceOverlap |-> FALSE,
     evalMethod |-> evalMethod, limit |-> limit, beamWidth |-> beamWidth,
     valueBased |-> FALSE, prune |-> FALSE, numBestSubs |-> DefaultNumBestSubs,
     minVertices |-> 1, maxVertices |-> 0,
     labelList |-> PathLabelList,
     posGraph |-> posGraph, numPosEgs |-> 1, posEgsVertexIndices |-> <<1>>,
     negGraph |-> NoExamples.graph, numNegEgs |-> NoExamples.numEgs,
     negEgsVertexIndices |-> NoExamples.egsVertexIndices]

\* a PostProcessParameters that leaves a limit of 0 as it is
PostProcessParametersKeepingLimit(parameters) ==
    [parameters EXCEPT
       !.maxVertices = IF @ = 0 THEN NumVertices(parameters.posGraph) ELSE @]

PostProcessParameters(parameters) ==
    [parameters EXCEPT
       !.maxVertices = IF @ = 0 THEN NumVertices(parameters.posGraph) ELSE @,
       !.limit = IF @ = 0 THEN NumEdges(parameters.posGraph) \div 2 ELSE @]

DisjointInputs ==
    {PostProcessParameters(
        GetParameters(DisjointPaths(o1, o2, d), DefaultBeamWidth, EVAL_SIZE, l)) :
        o1 \in PathOrders, o2 \in PathOrders, d \in BOOLEAN,
        l \in 0..MaxDisjointLimit}

DisjointInit ==
    /\ MatcherUnused
    /\ SubListUnused
    /\ FinderUnused
    /\ CompressUnused
    /\ IterUnused
    /\ RefUnused
    /\ EvalUnused
    /\ ParentUnused
    /\ QueueUnused
    /\ \E parameters \in DisjointInputs : DiscoverStart(parameters)

DisjointSpec == DisjointInit /\ [][DiscoverNext]_vars

\* the substructure is the path A - B - C with two instances
IsWholePath(sub) ==
    /\ NumVertices(sub.definition) = PathLength
    /\ NumEdges(sub.definition) = PathLength - 1
    /\ {sub.definition.vertices[v].label : v \in 1..PathLength} = 1..PathLength
    /\ \A e \in 1..(PathLength - 1) :
          \E v, w \in 1..PathLength :
             /\ sub.definition.vertices[v].label = e
             /\ sub.definition.vertices[w].label = e + 1
             /\ \E k \in 1..NumEdges(sub.definition) :
                   {sub.definition.edges[k].vertex1,
                    sub.definition.edges[k].vertex2} = {v, w}
    /\ sub.numInstances = 2
    /\ Len(sub.instances) = 2

\* the first pass extends the one-vertex substructures, one per label, and
\* the second pass begins with this limit
FirstSecondPassLimit == PathLength + 1

\* the limit is the one PostProcessParameters sets when none is given
DisjointDefaultLimit ==
    dParameters.limit = NumEdges(dParameters.posGraph) \div 2

DisjointReturned ==
    /\ dPhase = "returned"
    /\ dParameters \in DisjointInputs

\* C22 as stated: at the default limit the best substructure returned for
\* the two disjoint paths A - B - C is the whole path with two instances
\* and a value above 1.
C22_BestIsWholePathAtDefaults ==
    (DisjointReturned /\ DisjointDefaultLimit)
    => /\ dDiscoveredSubList # <<>>
       /\ IsWholePath(Head(dDiscoveredSubList))
       /\ ValueLess(<<1, 1>>, Head(dDiscoveredSubList).value)

\* C22: for the two disjoint paths A - B - C with beam width 4 and SIZE
\* evaluation, the best substructure returned is the whole path with two
\* instances and value 10/7 when the limit is 4 or more; with a smaller
\* limit, the default of 2 included, it is a path of two vertices with two
\* instances and value 10/9.
C22_BestIsWholePathFromLimitFour ==
    DisjointReturned
    => /\ dDiscoveredSubList # <<>>
       /\ Head(dDiscoveredSubList).numInstances = 2
       /\ IF dParameters.limit >= FirstSecondPassLimit
          THEN /\ IsWholePath(Head(dDiscoveredSubList))
               /\ Head(dDiscoveredSubList).value[1] * 7
                  = Head(dDiscoveredSubList).value[2] * 10
          ELSE /\ NumVertices(Head(dDiscoveredSubList).definition) = 2
               /\ NumEdges(Head(dDiscoveredSubList).definition) = 1
               /\ Head(dDiscoveredSubList).value[1] * 9
                  = Head(dDiscoveredSubList).value[2] * 10

C22_Witness ==
    /\ DisjointReturned
    /\ dParameters.limit >= FirstSecondPassLimit
    /\ dExtended >= FirstSecondPassLimit
    /\ IsWholePath(Head(dDiscoveredSubList))
    /\ ValueLess(<<1, 1>>, Head(dDiscoveredSubList).value)

----------------------------------------------------------------------------
(* GraphMatch on a square and the same square with one edge relabelled,    *)
(* called as FilterInstances calls it: the threshold handed over is the    *)
(* parameter threshold times the size of the second graph.                 *)

\* the labels of the four corners and of the two kinds of edge
SquareLabelList ==
    <<DiscoverLabel(<<"a">>), DiscoverLabel(<<"b">>), DiscoverLabel(<<"c">>),
      DiscoverLabel(<<"d">>), DiscoverLabel(<<"e">>), DiscoverLabel(<<"f">>)>>

SquareSide == Len(SquareLabelList) - 2

\* the labels of the corners, in any order round the square
SquareCorners ==
    {l \in [1..SquareSide -> 1..SquareSide] :
        \A i, j \in 1..SquareSide : i # j => l[i] # l[j]}

SquareEdgeLabel == SquareSide + 1

SquareOtherEdgeLabel == SquareSide + 2

Square(corners, directed) ==
    ReadGraph(corners,
              [e \in 1..SquareSide |->
                  DiscoverEdge(e, (e % SquareSide) + 1, SquareEdgeLabel, directed)])

\* the graph with the label of one edge replaced, at the edge itself and at
\* nothing else: the vertices hold the indices of their edges
Relabelled(graph, edge, label) ==
    [graph EXCEPT !.edges[edge].label = label]

\* the parameter thresholds of the claim: 0.0 and 0.25
SquareThresholds == {<<0, 1>>, <<1, 4>>}

SquareInit ==
    /\ SubListUnused
    /\ DiscoverUnused
    /\ FinderUnused
    /\ CompressUnused
    /\ IterUnused
    /\ RefUnused
    /\ EvalUnused
    /\ ParentUnused
    /\ QueueUnused
    /\ \E corners \in SquareCorners, directed \in BOOLEAN, edge \in 1..SquareSide,
          threshold \in SquareThresholds :
          /\ mG1 = Square(corners, directed)
          /\ mG2 = Relabelled(mG1, edge, SquareOtherEdgeLabel)
          /\ mThreshold = ThresholdLimit(threshold, mG2)
    /\ mMapping = <<>>
    /\ mSearch = Idle
    /\ mResult = [called |-> FALSE]
    /\ mUsed = {}

SquareSpec == SquareInit /\ [][MatcherNext]_vars

SquareReturned ==
    /\ mResult.called
    /\ mG1 \in {Square(c, d) : c \in SquareCorners, d \in BOOLEAN}

C23_WitnessAtZero ==
    /\ SquareReturned
    /\ mThreshold[1] = 0
    /\ mResult.searched
    /\ mResult.cost = MAX_DOUBLE

----------------------------------------------------------------------------
(* Compression of the triangle of a vertices with two b vertices hanging   *)
(* from it, by the instances of one substructure: one instance, or two     *)
(* that the overlap setting allows together.                               *)

TriangleInStarHost ==
    [labelList |-> <<DiscoverLabel(<<"A">>), DiscoverLabel(<<"B">>),
                     DiscoverLabel(<<"e">>)>>,
     pos |-> [graph |-> ReadGraph(<<1, 1, 1, 2, 2>>,
                           <<DiscoverEdge(1, 2, 3, FALSE),
                             DiscoverEdge(2, 3, 3, FALSE),
                             DiscoverEdge(1, 3, 3, FALSE),
                             DiscoverEdge(1, 4, 3, FALSE),
                             DiscoverEdge(2, 5, 3, FALSE)>>),
              numEgs |-> 1, egsVertexIndices |-> <<1>>],
     neg |-> NoExamples]

\* the triangle on the first three vertices
TriangleInstance == [vertices |-> <<1, 2, 3>>, edges |-> <<1, 2, 3>>]

StarInstanceLists(graph, allowInstanceOverlap) ==
    UNION {UNION {{l \in [1..n -> CandidateInstances(graph, numEdges)] :
                     \A a, b \in 1..n :
                        a < b => /\ l[a] # l[b]
                                 /\ (allowInstanceOverlap
                                     \/ InstanceVertices(l[a])
                                           \cap InstanceVertices(l[b]) = {})} :
                  n \in 1..2} :
           numEdges \in 0..MaxStarInstanceEdges}

StarInit ==
    /\ \E allowInstanceOverlap \in BOOLEAN, evalMethod \in {EVAL_MDL, EVAL_SIZE} :
          /\ cParameters = [allowInstanceOverlap |-> allowInstanceOverlap,
                            evalMethod |-> evalMethod]
          /\ cLabelList = TriangleInStarHost.labelList
          /\ cGraph = TriangleInStarHost.pos.graph
          /\ cFlags = ClearedFlags(TriangleInStarHost.pos.graph)
    /\ cCall = NoCall
    /\ MatcherUnused
    /\ SubListUnused
    /\ DiscoverUnused
    /\ FinderUnused
    /\ IterUnused
    /\ RefUnused
    /\ EvalUnused
    /\ ParentUnused
    /\ QueueUnused

\* EvaluateSub under MDL: the host compressed with the instances
CompressStar ==
    /\ cCall.name # "unused"
    /\ cParameters.evalMethod = EVAL_MDL
    /\ \E instanceList \in StarInstanceLists(cGraph, cParameters.allowInstanceOverlap) :
          LET compressed == CompressGraph(cGraph, cFlags, instanceList,
                               Len(cLabelList), cParameters.allowInstanceOverlap)
          IN  /\ cFlags' = compressed.flags
              /\ cCall' = [name |-> "CompressGraph",
                           instanceList |-> instanceList,
                           compressedGraph |-> compressed.compressedGraph,
                           nv |-> compressed.nv, ne |-> compressed.ne]
    /\ UNCHANGED <<cParameters, cLabelList, cGraph, matcherVars, subListVars, discoverVars, finderVars, iterVars, refVars, evalVars, parentVars, queueVars>>

\* EvaluateSub under SIZE: the size of the host as if compressed
SizeOfCompressedStar ==
    /\ cCall.name # "unused"
    /\ cParameters.evalMethod = EVAL_SIZE
    /\ \E instanceList \in StarInstanceLists(cGraph, cParameters.allowInstanceOverlap) :
          LET sized == SizeOfCompressedGraphCall(cGraph, cFlags, instanceList,
                          cParameters.allowInstanceOverlap)
          IN  /\ cFlags' = sized.flags
              /\ cCall' = [name |-> "SizeOfCompressedGraph",
                           instanceList |-> instanceList,
                           size |-> sized.size]
    /\ UNCHANGED <<cParameters, cLabelList, cGraph, matcherVars, subListVars, discoverVars, finderVars, iterVars, refVars, evalVars, parentVars, queueVars>>

StarNext == CompressStar \/ SizeOfCompressedStar

StarSpec == StarInit /\ [][StarNext]_vars

\* the host has been compressed, or sized, by the one triangle instance
TriangleCompressed ==
    /\ cGraph = TriangleInStarHost.pos.graph
    /\ cCall.name \in {"CompressGraph", "SizeOfCompressedGraph"}
    /\ cCall.instanceList = <<TriangleInstance>>

\* the size of the outcome of the call
CompressedStarSize ==
    IF cCall.name = "CompressGraph" THEN GraphSize(cCall.compressedGraph)
    ELSE cCall.size

\* C24 as stated: the host of size 10 compressed by the triangle instance
\* has size 3.
C24_TriangleCompressesToThree ==
    TriangleCompressed => (GraphSize(cGraph) = 10 /\ CompressedStarSize = 3)

\* C24: the host of size 10 compressed by the triangle instance has size 5:
\* one SUB vertex, the two B vertices and the two edges from the SUB vertex
\* to them.
C24_TriangleCompressesToFive ==
    TriangleCompressed
    => /\ GraphSize(cGraph) = 10
       /\ CompressedStarSize = 5
       /\ cCall.name = "CompressGraph"
          => /\ NumVertices(cCall.compressedGraph) = 3
             /\ NumEdges(cCall.compressedGraph) = 2
             /\ cCall.compressedGraph.vertices[1].label = Len(cLabelList) + 1
             /\ \A v \in 2..3 : cCall.compressedGraph.vertices[v].label = 2
             /\ \A e \in 1..2 :
                   /\ cCall.compressedGraph.edges[e].vertex1 = 1
                   /\ cCall.compressedGraph.edges[e].vertex2 = e + 1

C24_Witness ==
    /\ TriangleCompressed
    /\ cCall.name = "CompressGraph"
    /\ GraphSize(cCall.compressedGraph) = 5

\* the same for the size computed without building the graph
C24_WitnessSize ==
    /\ TriangleCompressed
    /\ cCall.name = "SizeOfCompressedGraph"
    /\ cCall.size = 5

----------------------------------------------------------------------------
(* DiscoverSubs is one sequential function: whenever one of its steps can  *)
(* be taken, it is taken.                                                  *)

\* a loop over the parent list goes on to the next parent: what every step
\* of ConsiderParent and of DrainParent does to the parent list, and no
\* other step does
TakeParent ==
    /\ dPhase \in {"search", "drain"}
    /\ dParentSubList # <<>>
    /\ dParentSubList' = Tail(dParentSubList)

DiscoverFairness ==
    /\ WF_dParentSubList(TakeParent)
    /\ WF_vars(NextPass)
    /\ WF_vars(ReturnDiscovered)

DiscoverLiveSpec == DiscoverInit /\ [][DiscoverNext]_vars /\ DiscoverFairness

\* C25: every run of DiscoverSubs leaves the outer loop, with the parent
\* list empty or limit at 0, drains the parents that are left and returns.
C25_BeamSearchTerminates ==
    /\ <>[](dPhase = "returned" /\ dParentSubList = <<>>)
    /\ [](dPhase \in {"drain", "returned"}
          => (dLimit = 0 \/ dParentSubList = <<>>))

\* the outer loop has ended on the limit after extending parents, and has
\* parents left to drain
C25_Witness ==
    /\ dPhase = "drain"
    /\ dLimit = 0
    /\ dExtended > 1
    /\ dParentSubList # <<>>
    /\ dDiscoveredSubList # <<>>

----------------------------------------------------------------------------
(* The instance lists ExtendSub leaves on the extended substructures.      *)

\* the vertices and edges of an instance, whatever their order
Occurrence(instance) ==
    <<{instance.vertices[i] : i \in 1..Len(instance.vertices)},
      {instance.edges[i] : i \in 1..Len(instance.edges)}>>

\* no instance is twice on the positive list, and numInstances counts the
\* distinct occurrences
DistinctInstances(sub) ==
    /\ \A a, b \in 1..Len(sub.instances) :
          a # b => Occurrence(sub.instances[a]) # Occurrence(sub.instances[b])
    /\ sub.numInstances
          = Cardinality({Occurrence(sub.instances[a]) : a \in 1..Len(sub.instances)})

\* C26: after a parent is extended, no instance appears more than once on
\* the positive instance list of any extended substructure, and
\* numInstances is the number of distinct occurrences on the list.
C26_NoInstanceTwice ==
    dExtended > 0
    => \A i \in 1..Len(dExtendedSubList) : DistinctInstances(dExtendedSubList[i])

\* the same where the list was built by the comparison of the new edge
\* (threshold 0) or without overlap
C26_NoInstanceTwiceWithoutOverlap ==
    (dExtended > 0 /\ (dParameters.threshold[1] = 0 \/ ~dParameters.allowInstanceOverlap))
    => \A i \in 1..Len(dExtendedSubList) : DistinctInstances(dExtendedSubList[i])

C26_WitnessWithoutOverlap ==
    /\ dExtended > 0
    /\ dParameters.threshold[1] = 0 \/ ~dParameters.allowInstanceOverlap
    /\ \E i \in 1..Len(dExtendedSubList) : dExtendedSubList[i].numInstances > 1

----------------------------------------------------------------------------
(* What DiscoverSubs does with a substructure it has taken off the parent  *)
(* list (the node's pointer is set to NULL, so FreeSubList leaves it).     *)

\* "listed": SubListInsert linked it into the discovered list; "freed":
\* FreeSub, by DiscoverSubs or by SubListInsert for a duplicate or a
\* substructure beyond the maximum; "dropped": neither
ParentFate(parentSub, parameters, discoveredSubList) ==
    IF NumVertices(parentSub.definition) < parameters.minVertices
    THEN "freed"
    ELSE IF SinglePreviousSub(parentSub, parameters)
    THEN "dropped"
    ELSE IF \E i \in 1..Len(Discovered(parentSub, parameters, discoveredSubList)) :
               Discovered(parentSub, parameters, discoveredSubList)[i] = parentSub
    THEN "listed"
    ELSE "freed"

\* C27: every substructure taken off the parent list is put on the
\* discovered list or freed; none is left without a reference and unfreed.
C27_ParentListedOrFreed ==
    [][TakeParent
       => ParentFate(Head(dParentSubList), dParameters, dDiscoveredSubList)
             \in {"listed", "freed"}]_vars

\* the same for the parents that are not a single vertex labelled SUB_<k>
C27_OtherParentsListedOrFreed ==
    [][(TakeParent /\ ~SinglePreviousSub(Head(dParentSubList), dParameters))
       => ParentFate(Head(dParentSubList), dParameters, dDiscoveredSubList)
             \in {"listed", "freed"}]_vars

----------------------------------------------------------------------------
(* DiscoverSubs at threshold 0 as it allocates and frees instances.  A     *)
(* substructure is kept as its positive instance list, the heap positions  *)
(* of its instances; which extensions the graph offers and which of them   *)
(* match one another is left open.                                         *)

FreeSub(heap, sub) == FreeInstanceListFrom(heap, sub, 1)

RECURSIVE FreeSubs(_, _, _)
FreeSubs(heap, subs, i) ==
    IF i > Len(subs) THEN heap
    ELSE FreeSubs(FreeSub(heap, subs[i]), subs, i + 1)

\* AllocateInstance as GetInitialSubs and CreateExtendedInstance call it;
\* parentInstance 0 is NULL
AllocatedInstance(parentInstance) ==
    [parentInstance |-> parentInstance, refCount |-> 0, freed |-> FALSE]

\* an UpdateMapping that follows the back-pointer of the parent as well
AncestorsRead(heap, instance) ==
    LET parent == heap[instance].parentInstance
    IN  {parent} \cup (IF parent = 0 THEN {} ELSE {heap[parent].parentInstance})

\* the instances UpdateMapping reads through the back-pointer of instance
ParentsRead(heap, instance) == {heap[instance].parentInstance}

\* InstanceListInsert(instance, list, FALSE) for each instance from i on
RECURSIVE AllocateNodes(_, _, _)
AllocateNodes(heap, instanceList, i) ==
    IF i > Len(instanceList) THEN heap
    ELSE AllocateNodes(AllocateInstanceListNode(heap, instanceList[i]),
                       instanceList, i + 1)

RECURSIVE AllocateSubs(_, _, _)
AllocateSubs(heap, subs, i) ==
    IF i > Len(subs) THEN heap
    ELSE AllocateSubs(AllocateNodes(heap, subs[i], 1), subs, i + 1)

\* the members of a sequence at the positions of the set, in order
RECURSIVE Kept(_, _, _)
Kept(seq, keep, i) ==
    IF i > Len(seq) THEN <<>>
    ELSE (IF i \in keep THEN <<seq[i]>> ELSE <<>>) \o Kept(seq, keep, i + 1)

\* the ways the new instances can fall to the substructures ExtendSub makes:
\* each goes to the substructure of the first instance it matches
Groupings(n) ==
    {g \in [1..n -> 1..n] : \A k \in 1..n : g[k] <= k /\ g[g[k]] = g[k]}

\* ExtendSub: [heap, extendedSubs, reads].  extensions[k] is the place in
\* sub of the instance that new instance k extends, group[k] the new
\* instance whose substructure takes new instance k.
ParentExtendSub(heap, sub, extensions, group) ==
    LET n == Len(extensions)
        first == Len(heap)
        \* ExtendInstances: the new instances, each on newInstanceList
        newInstanceList == [k \in 1..n |-> first + k]
        extended ==
            AllocateNodes(
                heap \o [k \in 1..n |-> AllocatedInstance(sub[extensions[k]])],
                newInstanceList, 1)
        \* AddPosInstancesToSub compares subInstance r with every later
        \* instance that no substructure has taken
        compared == {<<r, c>> \in (1..n) \X (1..n) :
                        group[r] = r /\ c > r /\ group[c] >= r}
        read == UNION {ParentsRead(extended, first + p[1])
                       \cup ParentsRead(extended, first + p[2]) : p \in compared}
        extendedSubs ==
            Kept([r \in 1..n |->
                     Kept(newInstanceList, {k \in 1..n : group[k] = r}, 1)],
                 {r \in 1..n : group[r] = r}, 1)
    IN  [heap |-> FreeInstanceListFrom(AllocateSubs(extended, extendedSubs, 1),
                                       newInstanceList, 1),
         extendedSubs |-> extendedSubs,
         reads |-> {[instance |-> i, freed |-> extended[i].freed] :
                       i \in read \ {0}}]

\* the child list after the extended substructures were inserted: those at
\* the places of keep stay, SubListInsert frees the others
ParentChildren(heap, candidates, keep) ==
    [heap |-> FreeSubs(heap, Kept(candidates, (1..Len(candidates)) \ keep, 1), 1),
     childSubList |-> Kept(candidates, keep, 1)]

\* the end of a turn of the loop over the parents: the parent is inserted
\* into the discovered list, where it can push the substructure at place
\* evicted out, or it is freed, or SinglePreviousSub holds and it is left
ParentDiscovered(heap, parentSub, discoveredSubList, fate, evicted) ==
    IF fate = "listed"
    THEN IF Len(discoveredSubList) < MaxParentBest
         THEN [heap |-> heap,
               discoveredSubList |-> Append(discoveredSubList, parentSub)]
         ELSE [heap |-> FreeSub(heap, discoveredSubList[evicted]),
               discoveredSubList |->
                  [discoveredSubList EXCEPT ![evicted] = parentSub]]
    ELSE IF fate = "freed"
    THEN [heap |-> FreeSub(heap, parentSub),
          discoveredSubList |-> discoveredSubList]
    ELSE [heap |-> heap, discoveredSubList |-> discoveredSubList]

ParentFates == {"listed", "freed", "dropped"}

\* GetInitialSubs: numInitialSubs substructures of two instances each
ParentInitialHeap(numInitialSubs) ==
    AllocateNodes([k \in 1..(2 * numInitialSubs) |-> AllocatedInstance(0)],
                  [k \in 1..(2 * numInitialSubs) |-> k], 1)

ParentInit ==
    /\ \E numInitialSubs \in 1..MaxInitialParents, limit \in 1..MaxParentLimit :
          /\ pHeap = ParentInitialHeap(numInitialSubs)
          /\ pParentSubList = [s \in 1..numInitialSubs |-> <<2 * s - 1, 2 * s>>]
          /\ pLimit = limit
    /\ pChildSubList = <<>>
    /\ pDiscoveredSubList = <<>>
    /\ pReads = {}
    /\ pPhase = "search"
    /\ MatcherUnused
    /\ SubListUnused
    /\ DiscoverUnused
    /\ FinderUnused
    /\ CompressUnused
    /\ IterUnused
    /\ RefUnused
    /\ EvalUnused
    /\ QueueUnused

\* one turn of the loop over the parent list with an extension
ParentExtended ==
    /\ pPhase = "search"
    /\ pParentSubList # <<>>
    /\ Len(Head(pParentSubList)) > 1
    /\ pLimit > 0
    /\ \E n \in 0..MaxNewInstances :
       \E extensions \in [1..n -> 1..Len(Head(pParentSubList))],
          group \in Groupings(n), fate \in ParentFates,
          evicted \in 1..MaxParentBest :
          LET extended == ParentExtendSub(pHeap, Head(pParentSubList),
                                          extensions, group)
              candidates == pChildSubList \o extended.extendedSubs
          IN  \E keep \in SUBSET (1..Len(candidates)) :
                 /\ Cardinality(keep) <= MaxParentBeam
                 /\ LET children == ParentChildren(extended.heap, candidates, keep)
                        discovered ==
                            ParentDiscovered(children.heap, Head(pParentSubList),
                                             pDiscoveredSubList, fate, evicted)
                    IN  /\ pHeap' = discovered.heap
                        /\ pChildSubList' = children.childSubList
                        /\ pDiscoveredSubList' = discovered.discoveredSubList
                        /\ pReads' = extended.reads
    /\ pLimit' = pLimit - 1
    /\ pParentSubList' = Tail(pParentSubList)
    /\ UNCHANGED <<pPhase, matcherVars, subListVars, discoverVars, finderVars, compressVars, iterVars, refVars, evalVars, queueVars>>

\* one turn of a loop over the parent list without an extension, in the
\* search or in the final drain
ParentPassed ==
    /\ \/ /\ pPhase = "search"
          /\ pParentSubList # <<>>
          /\ ~(Len(Head(pParentSubList)) > 1 /\ pLimit > 0)
       \/ /\ pPhase = "drain"
          /\ pParentSubList # <<>>
    /\ \E fate \in ParentFates, evicted \in 1..MaxParentBest :
          LET discovered ==
                  ParentDiscovered(pHeap, Head(pParentSubList),
                                   pDiscoveredSubList, fate, evicted)
          IN  /\ pHeap' = discovered.heap
              /\ pDiscoveredSubList' = discovered.discoveredSubList
    /\ pReads' = {}
    /\ pParentSubList' = Tail(pParentSubList)
    /\ UNCHANGED <<pChildSubList, pLimit, pPhase, matcherVars, subListVars, discoverVars, finderVars, compressVars, iterVars, refVars, evalVars, queueVars>>

\* the end of a pass: the child list becomes the parent list
ParentNextPass ==
    /\ pPhase = "search"
    /\ pParentSubList = <<>>
    /\ pParentSubList' = pChildSubList
    /\ pChildSubList' = <<>>
    /\ pReads' = {}
    /\ pPhase' = Searching(pLimit, pChildSubList)
    /\ UNCHANGED <<pHeap, pDiscoveredSubList, pLimit, matcherVars, subListVars, discoverVars, finderVars, compressVars, iterVars, refVars, evalVars, queueVars>>

ParentReturn ==
    /\ pPhase = "drain"
    /\ pParentSubList = <<>>
    /\ pPhase' = "returned"
    /\ pReads' = {}
    /\ UNCHANGED <<pHeap, pParentSubList, pChildSubList, pDiscoveredSubList, pLimit, matcherVars, subListVars, discoverVars, finderVars, compressVars, iterVars, refVars, evalVars, queueVars>>

ParentNext == ParentExtended \/ ParentPassed \/ ParentNextPass \/ ParentReturn

ParentSpec == ParentInit /\ [][ParentNext]_vars

\* C28: every instance that the comparison of the new edges reads through
\* the back-pointer of an extended instance was not freed when it was read.
C28_ParentInstanceLiveWhenRead ==
    \A read \in pReads : ~read.freed

\* an extension of the second pass has read its parent instances, after the
\* substructure of the first pass, whose instances those extend, was freed
C28_Witness ==
    /\ pReads # {}
    /\ \A read \in pReads :
          /\ ~read.freed
          /\ pHeap[read.instance].parentInstance # 0
          /\ pHeap[pHeap[read.instance].parentInstance].freed


----------------------------------------------------------------------------
(* graphmatch.c: the match heap under any sequence of insertions and       *)
(* extractions                                                             *)

\* the nodes a caller may queue: a cost, a depth, and the mapping, which the
\* heap only carries along
QueueNodes ==
    [cost : 0..MaxQueueCost, depth : 0..MaxQueueDepth]

\* AllocateMatchHeap: an empty heap
QueueInit ==
    /\ hQueue = <<>>
    /\ hNode = <<>>
    /\ hQueued = <<>>
    /\ hCall = "allocated"
    /\ MatcherUnused
    /\ SubListUnused
    /\ DiscoverUnused
    /\ FinderUnused
    /\ CompressUnused
    /\ IterUnused
    /\ RefUnused
    /\ EvalUnused
    /\ ParentUnused

QueueInsert ==
    /\ hCall # "unused"
    /\ Len(hQueue) < MaxQueueNodes
    /\ \E node \in QueueNodes :
           hQueue' = InsertMatchHeapNode(node, hQueue)
    /\ hNode' = <<>>
    /\ hQueued' = <<>>
    /\ hCall' = "inserted"
    /\ UNCHANGED <<matcherVars, subListVars, discoverVars, finderVars, compressVars, iterVars, refVars, evalVars, parentVars>>

\* callers extract only when MatchHeapEmpty says there is a node
QueueExtract ==
    /\ hCall # "unused"
    /\ hQueue # <<>>
    /\ hNode' = <<hQueue[1]>>
    /\ hQueued' = hQueue
    /\ hQueue' = ExtractMatchHeapNode(hQueue)
    /\ hCall' = "extracted"
    /\ UNCHANGED <<matcherVars, subListVars, discoverVars, finderVars, compressVars, iterVars, refVars, evalVars, parentVars>>

QueueNext ==
    \/ QueueInsert
    \/ QueueExtract

QueueSpec == QueueInit /\ [][QueueNext]_vars

\* how many times a node is in a heap
QueueCount(heap, node) == Cardinality({i \in 1..Len(heap) : heap[i] = node})

\* C29: after any sequence of insertions and extractions on the matcher's
\* queue, the node extracted has the lowest cost of all the nodes that were
\* queued and, among the nodes of that cost, the greatest depth; the
\* extraction takes exactly that one node out of the queue
C29_ExtractsCheapestThenDeepest ==
    hCall = "extracted" =>
        /\ \A i \in 1..Len(hQueued) :
               /\ hNode[1].cost <= hQueued[i].cost
               /\ hQueued[i].cost = hNode[1].cost => hQueued[i].depth <= hNode[1].depth
        /\ \A node \in QueueNodes :
               QueueCount(hQueued, node) =
                   QueueCount(hQueue, node) + (IF node = hNode[1] THEN 1 ELSE 0)

C29_Witness ==
    /\ hCall = "extracted"
    /\ Len(hQueued) = MaxQueueNodes
    /\ \E i \in 2..Len(hQueued) : hQueued[i].cost = hNode[1].cost /\ hQueued[i].depth < hNode[1].depth
    /\ \E i \in 2..Len(hQueued) : hQueued[i].cost > hNode[1].cost /\ hQueued[i].depth > hNode[1].depth


----------------------------------------------------------------------------
(* graphmatch.c: the switch of InexactGraphMatch to the greedy search.     *)
(* Two graphs without edges whose labels differ: every vertex of the first *)
(* is deleted or relabelled at cost 1, so a partial mapping of depth d     *)
(* costs d and the search takes the nodes level by level.                  *)

GreedyGraph(n, labelIndex) == ReadGraph([v \in 1..n |-> labelIndex], <<>>)

\* the pairs matched: graphs of equal size, and a smaller graph given
\* first or second
GreedyPairs ==
    {<<GreedyGraph(NumGreedyVertices, 1), GreedyGraph(NumGreedyVertices, 2)>>,
     <<GreedyGraph(NumGreedyVertices, 1), GreedyGraph(NumGreedyVertices - 1, 2)>>,
     <<GreedyGraph(NumGreedyVertices - 1, 2), GreedyGraph(NumGreedyVertices, 1)>>}

GreedyThresholds == {<<t, 1>> : t \in 0..MaxGreedyThreshold}

GreedyInit ==
    /\ SubListUnused
    /\ DiscoverUnused
    /\ FinderUnused
    /\ CompressUnused
    /\ IterUnused
    /\ RefUnused
    /\ EvalUnused
    /\ ParentUnused
    /\ QueueUnused
    /\ \E pair \in GreedyPairs :
           /\ mG1 = pair[1]
           /\ mG2 = pair[2]
    /\ mThreshold \in GreedyThresholds
    /\ mMapping = <<>>
    /\ mSearch = Idle
    /\ mResult = [called |-> FALSE]
    /\ mUsed = {}

GreedySpec == GreedyInit /\ [][MatcherNext]_vars

\* n to the fourth, n the vertex count of the larger graph
GreedyThreshold ==
    LET n == IF NumVertices(mG1) > NumVertices(mG2) THEN NumVertices(mG1)
             ELSE NumVertices(mG2)
    IN  n * n * n * n

\* the pass of the loop that has just run made the switch
AtSwitch ==
    /\ mSearch.phase = "search"
    /\ mSearch.quickMatch
    /\ mSearch.numNodes = GreedyThreshold + 1

\* the search is in greedy mode exactly when it has taken more than n^4 nodes
GreedyAfterThreshold ==
    mSearch.phase = "search" =>
        (mSearch.quickMatch <=> mSearch.numNodes > GreedyThreshold)

\* the queue of the pass about to run as CompressMatchHeap would find it
QueueBeforeSwitch ==
    LET node == mSearch.globalQueue[1]
        rest == ExtractMatchHeapNode(mSearch.globalQueue)
    IN  IF node.cost < mSearch.bestNode.cost /\ node.depth # NumVertices(LargerGraph)
        THEN MergeMatchHeaps(ExpandNode(LargerGraph, SmallerGraph, node,
                                        OrderVerticesByDegree(LargerGraph),
                                        mThreshold, mSearch.bestNode.cost),
                             rest)
        ELSE rest

\* how many nodes of a queue have the given cost and depth
KeyCount(queue, cost, depth) ==
    Cardinality({i \in 1..Len(queue) : queue[i].cost = cost /\ queue[i].depth = depth})

\* how many nodes of a queue come before every node of that cost and depth
KeysAhead(queue, cost, depth) ==
    Cardinality({i \in 1..Len(queue) :
                    \/ queue[i].cost < cost
                    \/ (queue[i].cost = cost /\ queue[i].depth > depth)})

\* the costs and depths found in a queue
Keys(queue) == {<<queue[i].cost, queue[i].depth>> : i \in 1..Len(queue)}

\* after is before reduced to its n best nodes and, of the others, the
\* deepest node of each cost above the cost of the n-th best
Reduced(before, after, n) ==
    LET keys == Keys(before)
        Among(key) ==
            IF n > KeysAhead(before, key[1], key[2])
            THEN IF KeyCount(before, key[1], key[2]) < n - KeysAhead(before, key[1], key[2])
                 THEN KeyCount(before, key[1], key[2])
                 ELSE n - KeysAhead(before, key[1], key[2])
            ELSE 0
        Beyond(key) ==
            IF \A other \in keys :
                   other[1] = key[1] => (Among(other) = 0 /\ other[2] <= key[2])
            THEN 1 ELSE 0
    IN  /\ \A i \in 1..Len(after) :
               Cardinality({j \in 1..Len(after) : after[j] = after[i]})
                   <= Cardinality({j \in 1..Len(before) : before[j] = after[i]})
        /\ Keys(after) \subseteq keys
        /\ \A key \in keys :
               KeyCount(after, key[1], key[2]) = Among(key) + Beyond(key)

\* C30 as stated: once the matcher has expanded more than n^4 queue nodes
\* (n the vertex count of the larger graph) it switches to greedy mode, and
\* at the switch the queue retains only one node per distinct cost
C30_SwitchKeepsOnePerCost ==
    /\ GreedyAfterThreshold
    /\ AtSwitch =>
           \A i, j \in 1..Len(mSearch.globalQueue) :
               i # j => mSearch.globalQueue[i].cost # mSearch.globalQueue[j].cost

\* C30: once the matcher has expanded more than n^4 queue nodes (n the
\* vertex count of the larger graph) it switches to greedy mode, and at the
\* switch the queue is reduced to its n best nodes and, of the nodes behind
\* them, one node (the deepest) of each cost above the cost of the n-th
C30_SwitchKeepsBestAndOnePerCost ==
    /\ [](GreedyAfterThreshold)
    /\ [][(mSearch.phase = "search" /\ mSearch'.phase = "search"
           /\ ~mSearch.quickMatch /\ mSearch'.quickMatch)
          => Reduced(QueueBeforeSwitch, mSearch'.globalQueue,
                     NumVertices(LargerGraph))]_vars

C30_Witness ==
    /\ AtSwitch
    /\ Len(mSearch.globalQueue) > NumVertices(LargerGraph)
    /\ \E i, j \in 1..Len(mSearch.globalQueue) :
           i # j /\ mSearch.globalQueue[i].cost = mSearch.globalQueue[j].cost
    /\ \E i, j \in 1..Len(mSearch.globalQueue) :
           mSearch.globalQueue[i].cost < mSearch.globalQueue[j].cost

====
